---- MODULE Spec2Model ----
(***************************************************************************)
(* A model of pipifax-io's type-directed serializer code generator:        *)
(*   - code_generator.py    : the Program Builder (CodeGenerator) and the  *)
(*                            diagnostic registration around a routine     *)
(*   - json_serialization.py: the serializer / deserializer compilers and  *)
(*                            the entry points                             *)
(*   - type_serializer.py   : the generic SerializerCodegen /              *)
(*                            DeserializerCodegen classes                  *)
(*                                                                         *)
(* Generated program text is kept as text (TLA+ strings) together with its *)
(* parse, so that a built program can both be rendered and be executed.    *)
(* Python semantics are those of CPython 3.12 / 3.13 (the source uses      *)
(* PEP 695 syntax): typing.Union[...] is a special form, X | Y is an       *)
(* instance of the class types.UnionType.                                  *)
(***************************************************************************)
EXTENDS Integers, Sequences, FiniteSets, TLC

VARIABLES
    pydantic,   \* whether "import pydantic" succeeded, so that the module global pydantic is bound
    cache,      \* linecache.cache: file name -> (size, mtime, lines, fullname)
    cg,         \* SpecBuild: the CodeGenerator instance under construction
    nops,       \* SpecBuild: number of builder calls made so far
    last,       \* SpecBuild: what the last builder call returned
    trace,      \* SpecEmit: the calls a client made on the builder, each with the number of statements after it
    routines,   \* SpecInvoke: the Compiled Routines that were built
    pc,         \* SpecInvoke: where each thread is inside func
    call,       \* SpecInvoke: the routine and the argument of each thread's invocation
    pending,    \* SpecInvoke: what the body of the with statement produced
    outcome,    \* SpecInvoke: what the invocation gave its caller
    engine,     \* SpecSerde: which compiler builds the routines
    hint,       \* SpecSerde: the type hint
    data,       \* SpecSerde: the value to serialize
    wire_in,    \* SpecSerde: the wire value to deserialize
    ser,        \* SpecSerde: the result of building the serializer
    ser_out,    \* SpecSerde: the result of invoking the serializer on data
    deser,      \* SpecSerde: the result of building the deserializer
    deser_out,  \* SpecSerde: the result of invoking the deserializer on wire_in
    back,       \* SpecSerde: the result of invoking the deserializer on the serializer's output
    blind,      \* SpecSerde: the result of serialize_json(data, None)
    yields,     \* SpecGen: the items the body of the decorated generator function yields
    gen_obj,    \* SpecGen: what the call of the decorated function returned
    received,   \* SpecGen: the items the consumer got from iterating gen_obj
    stopped     \* SpecGen: whether the consumer's iteration has ended

varsBuild == <<cg, nops, last, trace>>

varsInvoke == <<routines, pc, call, pending, outcome>>

varsSerde == <<engine, hint, data, wire_in, ser, ser_out, deser, deser_out, back, blind>>

varsGen == <<yields, gen_obj, received, stopped>>

vars == <<pydantic, cache, cg, nops, last, trace, routines, pc, call, pending, outcome, engine, hint, data, wire_in, ser, ser_out, deser, deser_out, back, blind, yields, gen_obj, received, stopped>>

(***************************************************************************)
(* Bounds of the model.                                                    *)
(***************************************************************************)
\* builder calls per build in SpecBuild
MaxOps == 4
\* largest n passed to get_vars in SpecBuild
MaxGetVars == 2
\* builder calls per build in SpecEmit
MaxEmits == 4
\* compiler runs per build in SpecCompile
MaxCompiles == 2
\* items a generator yields in SpecGen
MaxYields == 3
\* threads that invoke Compiled Routines concurrently in SpecInvoke
NThreads == 2

(***************************************************************************)
(* Small helpers.                                                          *)
(***************************************************************************)
Range(s) == {s[i] : i \in DOMAIN s}

NoDup(s) == \A i, j \in DOMAIN s : i # j => s[i] # s[j]

EmptyMap == [x \in {} |-> <<>>]

\* dict item assignment d[k] = v
MapSet(m, k, v) == [x \in (DOMAIN m) \cup {k} |-> IF x = k THEN v ELSE m[x]]

(***************************************************************************)
(* Python values.  A value is a pair <<tag, payload>>; the tag is the name  *)
(* of the value's class.  Text is a sequence of code points, bytes a        *)
(* sequence of numbers 0..255, a dict the sequence of its (key, value)      *)
(* pairs in insertion order, a datetime <<year, month, day, hour, minute,   *)
(* second>> (naive, microsecond 0).                                         *)
(***************************************************************************)
PyNone == <<"NoneType", <<>>>>
PyInt(n) == <<"int", n>>
PyBool(b) == <<"bool", b>>
PyStr(cps) == <<"str", cps>>
PyBytes(bs) == <<"bytes", bs>>
PyList(xs) == <<"list", xs>>
PyTuple(xs) == <<"tuple", xs>>
PyDict(pairs) == <<"dict", pairs>>
PyDatetime(f) == <<"datetime", f>>
PyType(c) == <<"type", c>>
PyModule(m) == <<"module", m>>

\* the outcome of evaluating an expression: a value, or the class of the exception raised
Ok(v) == [exc |-> "", v |-> v]
Raise(e) == [exc |-> e, v |-> PyNone]

\* isinstance(v, cls) for a class object cls; bool is a subclass of int
IsInstance(v, cls) == cls[1] = "type" /\ (v[1] = cls[2] \/ (v[1] = "bool" /\ cls[2] = "int") \/ cls[2] = "object")

\* a == b
PyEq(a, b) ==
    IF a[1] = "bool" /\ b[1] = "int" THEN (IF a[2] THEN 1 ELSE 0) = b[2]
    ELSE IF a[1] = "int" /\ b[1] = "bool" THEN a[2] = (IF b[2] THEN 1 ELSE 0)
    ELSE a = b

Truthy(v) ==
    IF v[1] = "bool" THEN v[2]
    ELSE IF v[1] = "int" THEN v[2] # 0
    ELSE IF v[1] = "NoneType" THEN FALSE
    ELSE IF v[1] \in {"str", "bytes", "list", "tuple", "dict"} THEN Len(v[2]) > 0
    ELSE TRUE

\* iter(v): the items a for loop, list(v) or an unpacking sees
Iterate(v) ==
    IF v[1] \in {"list", "tuple"} THEN Ok(v[2])
    ELSE IF v[1] = "dict" THEN Ok([i \in DOMAIN v[2] |-> v[2][i][1]])
    ELSE IF v[1] = "str" THEN Ok([i \in DOMAIN v[2] |-> PyStr(<<v[2][i]>>)])
    ELSE IF v[1] = "bytes" THEN Ok([i \in DOMAIN v[2] |-> PyInt(v[2][i])])
    ELSE Raise("TypeError")

DictHas(pairs, k) == \E i \in DOMAIN pairs : pairs[i][1] = k

DictGet(pairs, k) == pairs[CHOOSE i \in DOMAIN pairs : pairs[i][1] = k][2]

\* d[k] = v: an existing key keeps its position, a new key goes last
DictSet(pairs, k, v) ==
    IF DictHas(pairs, k) THEN [i \in DOMAIN pairs |-> IF pairs[i][1] = k THEN <<k, v>> ELSE pairs[i]]
    ELSE Append(pairs, <<k, v>>)

RECURSIVE DictFromPairs(_, _)
DictFromPairs(items, acc) ==
    IF items = <<>> THEN Ok(PyDict(acc))
    ELSE LET it == Iterate(Head(items))
         IN IF it.exc # "" THEN Raise("TypeError")
            ELSE IF Len(it.v) # 2 THEN Raise("ValueError")
            ELSE DictFromPairs(Tail(items), DictSet(acc, it.v[1], it.v[2]))

\* v[i]
GetItem(v, i) ==
    IF v[1] \in {"list", "tuple", "str", "bytes"} THEN
        IF i[1] \notin {"int", "bool"} THEN Raise("TypeError")
        ELSE LET n == IF i[1] = "bool" THEN (IF i[2] THEN 1 ELSE 0) ELSE i[2]
                 k == IF n < 0 THEN Len(v[2]) + n + 1 ELSE n + 1
             IN IF k < 1 \/ k > Len(v[2]) THEN Raise("IndexError")
                ELSE IF v[1] = "str" THEN Ok(PyStr(<<v[2][k]>>))
                ELSE IF v[1] = "bytes" THEN Ok(PyInt(v[2][k]))
                ELSE Ok(v[2][k])
    ELSE IF v[1] = "dict" THEN (IF DictHas(v[2], i) THEN Ok(DictGet(v[2], i)) ELSE Raise("KeyError"))
    ELSE Raise("TypeError")

\* v[i] = x, giving the container after the store
SetItem(v, i, x) ==
    IF v[1] = "list" THEN
        IF i[1] # "int" THEN Raise("TypeError")
        ELSE LET k == IF i[2] < 0 THEN Len(v[2]) + i[2] + 1 ELSE i[2] + 1
             IN IF k < 1 \/ k > Len(v[2]) THEN Raise("IndexError")
                ELSE Ok(PyList([v[2] EXCEPT ![k] = x]))
    ELSE IF v[1] = "dict" THEN
        IF i[1] \in {"list", "dict"} THEN Raise("TypeError") ELSE Ok(PyDict(DictSet(v[2], i, x)))
    ELSE Raise("TypeError")

\* cls(*args) for the classes the generated programs construct
Construct(cls, args) ==
    IF cls \in {"list", "tuple"} THEN
        IF Len(args) = 0 THEN Ok(<<cls, <<>>>>)
        ELSE IF Len(args) > 1 THEN Raise("TypeError")
        ELSE LET it == Iterate(args[1]) IN IF it.exc # "" THEN it ELSE Ok(<<cls, it.v>>)
    ELSE IF cls = "dict" THEN
        IF Len(args) = 0 THEN Ok(PyDict(<<>>))
        ELSE IF Len(args) > 1 THEN Raise("TypeError")
        ELSE IF args[1][1] = "dict" THEN Ok(args[1])
        ELSE LET it == Iterate(args[1]) IN IF it.exc # "" THEN it ELSE DictFromPairs(it.v, <<>>)
    ELSE Raise("TypeError")

\* enumerate(v), as the list of its (index, item) pairs
Enumerate(v) ==
    LET it == Iterate(v)
    IN IF it.exc # "" THEN it ELSE Ok(PyList([i \in DOMAIN it.v |-> PyTuple(<<PyInt(i - 1), it.v[i]>>)]))

(***************************************************************************)
(* Library conversions the generated programs and the blind serializer      *)
(* call: base64 (RFC 4648, standard alphabet, "=" padding), str.encode,     *)
(* datetime.isoformat / fromisoformat.                                      *)
(***************************************************************************)
\* the i-th character of the base64 alphabet, as a code point
B64Char(i) ==
    IF i < 26 THEN 65 + i
    ELSE IF i < 52 THEN 97 + (i - 26)
    ELSE IF i < 62 THEN 48 + (i - 52)
    ELSE IF i = 62 THEN 43
    ELSE 47

B64Pad == 61

\* the value of a base64 character, -1 for a character outside the alphabet
B64Index(c) ==
    IF c >= 65 /\ c <= 90 THEN c - 65
    ELSE IF c >= 97 /\ c <= 122 THEN c - 97 + 26
    ELSE IF c >= 48 /\ c <= 57 THEN c - 48 + 52
    ELSE IF c = 43 THEN 62
    ELSE IF c = 47 THEN 63
    ELSE -1

\* base64.b64encode(bs), as code points
RECURSIVE B64Encode(_)
B64Encode(bs) ==
    IF Len(bs) = 0 THEN <<>>
    ELSE IF Len(bs) = 1 THEN
        <<B64Char(bs[1] \div 4), B64Char((bs[1] % 4) * 16), B64Pad, B64Pad>>
    ELSE IF Len(bs) = 2 THEN
        <<B64Char(bs[1] \div 4), B64Char((bs[1] % 4) * 16 + bs[2] \div 16), B64Char((bs[2] % 16) * 4), B64Pad>>
    ELSE <<B64Char(bs[1] \div 4), B64Char((bs[1] % 4) * 16 + bs[2] \div 16), B64Char((bs[2] % 16) * 4 + bs[3] \div 64), B64Char(bs[3] % 64)>>
         \o B64Encode(SubSeq(bs, 4, Len(bs)))

\* base64.b64decode(cs) on padded text of the standard alphabet; anything else
\* is reported as binascii.Error (a ValueError)
RECURSIVE B64Decode(_)
B64Decode(cs) ==
    IF Len(cs) = 0 THEN Ok(<<>>)
    ELSE IF Len(cs) < 4 THEN Raise("ValueError")
    ELSE LET a == B64Index(cs[1])
             b == B64Index(cs[2])
             c == B64Index(cs[3])
             d == B64Index(cs[4])
             rest == B64Decode(SubSeq(cs, 5, Len(cs)))
         IN IF a < 0 \/ b < 0 THEN Raise("ValueError")
            ELSE IF cs[3] = B64Pad /\ cs[4] = B64Pad THEN
                (IF Len(cs) = 4 THEN Ok(<<a * 4 + b \div 16>>) ELSE Raise("ValueError"))
            ELSE IF c < 0 THEN Raise("ValueError")
            ELSE IF cs[4] = B64Pad THEN
                (IF Len(cs) = 4 THEN Ok(<<a * 4 + b \div 16, (b % 16) * 16 + c \div 4>>) ELSE Raise("ValueError"))
            ELSE IF d < 0 \/ rest.exc # "" THEN Raise("ValueError")
            ELSE Ok(<<a * 4 + b \div 16, (b % 16) * 16 + c \div 4, (c % 4) * 64 + d>> \o rest.v)

Digit(n) == 48 + n

Digits2(n) == <<Digit((n \div 10) % 10), Digit(n % 10)>>

Digits4(n) == <<Digit((n \div 1000) % 10), Digit((n \div 100) % 10)>> \o Digits2(n)

\* datetime.isoformat() of a naive datetime whose microsecond is 0: YYYY-MM-DDTHH:MM:SS
IsoFormat(f) == Digits4(f[1]) \o <<45>> \o Digits2(f[2]) \o <<45>> \o Digits2(f[3]) \o <<84>> \o Digits2(f[4]) \o <<58>> \o Digits2(f[5]) \o <<58>> \o Digits2(f[6])

IsDigit(c) == c >= 48 /\ c <= 57

Num(cs) == IF Len(cs) = 2 THEN (cs[1] - 48) * 10 + (cs[2] - 48) ELSE (cs[1] - 48) * 1000 + (cs[2] - 48) * 100 + (cs[3] - 48) * 10 + (cs[4] - 48)

DaysIn(y, m) ==
    IF m \in {4, 6, 9, 11} THEN 30
    ELSE IF m # 2 THEN 31
    ELSE IF y % 4 = 0 /\ (y % 100 # 0 \/ y % 400 = 0) THEN 29
    ELSE 28

\* datetime.datetime.fromisoformat(cs) on the YYYY-MM-DDTHH:MM:SS form; text of any
\* other form is reported as ValueError
FromIsoFormat(cs) ==
    IF Len(cs) # 19 THEN Raise("ValueError")
    ELSE IF ~(cs[5] = 45 /\ cs[8] = 45 /\ cs[11] \in {84, 32} /\ cs[14] = 58 /\ cs[17] = 58) THEN Raise("ValueError")
    ELSE IF \E i \in {1, 2, 3, 4, 6, 7, 9, 10, 12, 13, 15, 16, 18, 19} : ~IsDigit(cs[i]) THEN Raise("ValueError")
    ELSE LET y == Num(SubSeq(cs, 1, 4))
             mo == Num(SubSeq(cs, 6, 7))
             d == Num(SubSeq(cs, 9, 10))
             h == Num(SubSeq(cs, 12, 13))
             mi == Num(SubSeq(cs, 15, 16))
             sec == Num(SubSeq(cs, 18, 19))
         IN IF y < 1 \/ mo < 1 \/ mo > 12 \/ d < 1 \/ d > DaysIn(y, mo) \/ h > 23 \/ mi > 59 \/ sec > 59 THEN Raise("ValueError")
            ELSE Ok(PyDatetime(<<y, mo, d, h, mi, sec>>))

(***************************************************************************)
(* Code fragments: a piece of generated text and the expression or         *)
(* statement that Python's parser reads in it.                             *)
(***************************************************************************)
Frag(t, a) == [txt |-> t, ast |-> a]

Name(n) == Frag(n, [op |-> "name", id |-> n])

\* the f-string  f"var{self.var_i}"
VarName(i) == "var" \o ToString(i)

\* the text "(i, x)" of a two-element tuple display whose first element is a number
NumPair(i, x) == Frag("(" \o ToString(i) \o ", " \o x.txt \o ")", [op |-> "tuple", elts |-> <<[op |-> "int", n |-> i], x.ast>>])

\* f"{x}[{i}]" for a number i
SubscriptNum(x, i) == Frag(x.txt \o "[" \o ToString(i) \o "]", [op |-> "index", base |-> x.ast, idx |-> [op |-> "int", n |-> i]])

\* f"{x}[{k}]" for an expression k
Subscript(x, k) == Frag(x.txt \o "[" \o k.txt \o "]", [op |-> "index", base |-> x.ast, idx |-> k.ast])

RECURSIVE JoinNames(_)
\* ', '.join(names)
JoinNames(names) == IF names = <<>> THEN "" ELSE IF Len(names) = 1 THEN names[1] ELSE names[1] \o ", " \o JoinNames(Tail(names))

\* f"({', '.join(out)},)": a tuple display with a trailing comma; "(,)" does not parse
TupleDisplay(names) == Frag("(" \o JoinNames(names) \o ",)", IF names = <<>> THEN [op |-> "syntax_error"] ELSE [op |-> "tuple", elts |-> [i \in DOMAIN names |-> [op |-> "name", id |-> names[i]]]])

\* f"{f}({x})"
Call1(f, x) == Frag(f \o "(" \o x.txt \o ")", [op |-> "call", fn |-> [op |-> "name", id |-> f], args |-> <<x.ast>>])

\* f"{f}()"
Call0(f) == Frag(f \o "()", [op |-> "call", fn |-> [op |-> "name", id |-> f], args |-> <<>>])

\* f"{x}.{m}()"
Method0(x, m) == Frag(x.txt \o "." \o m \o "()", [op |-> "method", obj |-> x.ast, name |-> m, args |-> <<>>])

\* f"{out} = {value}" given as one literal line
AssignLine(out, value) == Frag(out.txt \o " = " \o value.txt, [op |-> "assign", target |-> out.ast, value |-> value.ast])

\* f"for {a}, {b} in {x}:"
For2(a, b, x) == Frag("for " \o a \o ", " \o b \o " in " \o x.txt \o ":", [op |-> "for", targets |-> <<a, b>>, iter |-> x.ast])

\* f"for {a} in {x}:"
For1(a, x) == Frag("for " \o a \o " in " \o x.txt \o ":", [op |-> "for", targets |-> <<a>>, iter |-> x.ast])

\* f"{out}.append({e})"
AppendLine(out, e) == Frag(out.txt \o ".append(" \o e.txt \o ")", [op |-> "append", obj |-> out.txt, value |-> e.ast])

\* f"base64.b64decode({x}.encode('utf-8'))"
B64DecodeOfEncode(x) == Frag("base64.b64decode(" \o x.txt \o ".encode('utf-8'))", [op |-> "modcall", path |-> <<"base64", "b64decode">>, args |-> <<[op |-> "method", obj |-> x.ast, name |-> "encode", args |-> <<>>]>>])

\* f"datetime.datetime.fromisoformat({x})"
FromIsoFormatOf(x) == Frag("datetime.datetime.fromisoformat(" \o x.txt \o ")", [op |-> "modcall", path |-> <<"datetime", "datetime", "fromisoformat">>, args |-> <<x.ast>>])

EmptyListDisplay == Frag("[]", [op |-> "list_display"])

EmptyDictDisplay == Frag("{}", [op |-> "dict_display"])

(***************************************************************************)
(* code_generator.py: statements.                                          *)
(***************************************************************************)
LiteralStatement(stmt) == [kind |-> "literal", stmt |-> stmt]

AssignmentStatement(left, right) == [kind |-> "assign", left |-> left, right |-> right]

\* LiteralStatement.to_str / AssignmentStatement.to_str
StatementToStr(st) == IF st.kind = "literal" THEN st.stmt.txt ELSE st.left.txt \o " = " \o st.right.txt

(***************************************************************************)
(* code_generator.py: CodeGenerator.  A builder is a record; every method  *)
(* is an operator from the builder to the builder after the call (and, if  *)
(* the method returns something, a record [cg, r]).  The field "names" is  *)
(* a history of every name get_var has returned, "exc" is the exception    *)
(* that aborted the build ("" while none was raised), "low" is the lowest  *)
(* value current_indent has had.                                           *)
(***************************************************************************)
NewCodeGenerator == [statements |-> <<>>, current_indent |-> 0, consts |-> EmptyMap, var_i |-> 0, names |-> <<>>, exc |-> "", low |-> 0]

\* fault injection: a get_var that forgets to advance the counter
get_var_reuse(g) == [cg |-> [g EXCEPT !.names = Append(@, VarName(g.var_i))], r |-> VarName(g.var_i)]

get_var(g) == [cg |-> [g EXCEPT !.var_i = @ + 1, !.names = Append(@, VarName(g.var_i))], r |-> VarName(g.var_i)]

RECURSIVE get_vars(_, _)
get_vars(g, n) ==
    IF n <= 0 THEN [cg |-> g, r |-> <<>>]
    ELSE LET first == get_vars(g, n - 1)
             one == get_var(first.cg)
         IN [cg |-> one.cg, r |-> Append(first.r, one.r)]

get_const(g, val) ==
    LET v == get_var(g)
    IN [cg |-> [v.cg EXCEPT !.consts = MapSet(@, v.r, val)], r |-> v.r]

ensure_import(g, module) == [g EXCEPT !.consts = MapSet(@, module, <<"module", module>>)]

\* fault injection: an indent that opens two levels
indent_twice(g) == [g EXCEPT !.current_indent = @ + 2]

indent(g) == [g EXCEPT !.current_indent = @ + 1]

add_statement(g, statement) == [g EXCEPT !.statements = Append(@, <<g.current_indent, statement>>)]

\* fault injection: an assign that does not compare the two sides
assign_plain(g, left, right) == add_statement(g, AssignmentStatement(left, right))

assign(g, left, right) ==
    LET l == IF left.txt = right.txt THEN Frag("# " \o left.txt, [op |-> "comment"]) ELSE left
    IN add_statement(g, AssignmentStatement(l, right))

assign_new(g, expr) ==
    LET v == get_var(g)
    IN [cg |-> assign(v.cg, Name(v.r), expr), r |-> v.r]

literal(g, stmt) == add_statement(g, LiteralStatement(stmt))

comment(g, text) == add_statement(g, LiteralStatement(Frag("# " \o text, [op |-> "comment"])))

Placeholder == Frag("...", [op |-> "ellipsis"])

\* fault injection: a dedent that emits no placeholder
dedent_bare(g) == [g EXCEPT !.current_indent = @ - 1, !.low = IF g.current_indent - 1 < @ THEN g.current_indent - 1 ELSE @]

dedent(g) == [literal(g, Placeholder) EXCEPT !.current_indent = @ - 1, !.low = IF g.current_indent - 1 < @ THEN g.current_indent - 1 ELSE @]

(***************************************************************************)
(* Python's compile() and exec() on a built program.  Only the statement   *)
(* and expression forms the compilers emit are known.  Containers have     *)
(* value semantics: every container a generated program stores into is     *)
(* one the program created itself and holds under a single name.           *)
(***************************************************************************)
\* what the parser reads in one statement of the builder
StatementAst(st) ==
    IF st.kind = "literal" THEN st.stmt.ast
    ELSE IF st.left.ast.op = "comment" THEN [op |-> "comment"]
    ELSE [op |-> "assign", target |-> st.left.ast, value |-> st.right.ast]

\* "    " * indent is the empty text for a negative indent
RenderedIndent(n) == IF n < 0 THEN 0 ELSE n

\* the logical lines of a program: comment lines are dropped by the tokenizer
LogicalLines(statements) ==
    SelectSeq([i \in DOMAIN statements |-> [ind |-> RenderedIndent(statements[i][1]), ast |-> StatementAst(statements[i][2]), no |-> i]], LAMBDA l : l.ast.op # "comment")

IsHeader(ast) == ast.op \in {"for", "if", "elif"}

RECURSIVE HasSyntaxError(_)
HasSyntaxError(e) ==
    IF e.op = "syntax_error" THEN TRUE
    ELSE IF e.op \in {"name", "int", "list_display", "dict_display", "ellipsis", "comment"} THEN FALSE
    ELSE IF e.op = "index" THEN HasSyntaxError(e.base) \/ HasSyntaxError(e.idx)
    ELSE IF e.op = "tuple" THEN \E i \in DOMAIN e.elts : HasSyntaxError(e.elts[i])
    ELSE IF e.op = "call" THEN HasSyntaxError(e.fn) \/ \E i \in DOMAIN e.args : HasSyntaxError(e.args[i])
    ELSE IF e.op = "method" THEN HasSyntaxError(e.obj) \/ \E i \in DOMAIN e.args : HasSyntaxError(e.args[i])
    ELSE IF e.op = "modcall" THEN \E i \in DOMAIN e.args : HasSyntaxError(e.args[i])
    ELSE IF e.op = "eq" THEN HasSyntaxError(e.left) \/ HasSyntaxError(e.right)
    ELSE IF e.op = "assign" THEN HasSyntaxError(e.target) \/ HasSyntaxError(e.value)
    ELSE IF e.op = "append" THEN HasSyntaxError(e.value)
    ELSE IF e.op = "for" THEN HasSyntaxError(e.iter)
    ELSE IF e.op \in {"if", "elif"} THEN HasSyntaxError(e.test)
    ELSE TRUE

\* the nearest line before k that is not deeper than line k
RECURSIVE Opener(_, _, _)
Opener(L, k, j) == IF j < 1 THEN 0 ELSE IF L[j].ind <= L[k].ind THEN j ELSE Opener(L, k, j - 1)

\* the tokenizer's stack of indentation levels: INDENT only after a header, DEDENT
\* only to a level on the stack
RECURSIVE IndentOk(_, _, _, _)
IndentOk(L, k, stack, afterHeader) ==
    IF k > Len(L) THEN ~afterHeader
    ELSE LET d == L[k].ind
             top == stack[Len(stack)]
             popped == SelectSeq(stack, LAMBDA x : x <= d)
             o == Opener(L, k, k - 1)
             elifOk == L[k].ast.op # "elif" \/ (o > 0 /\ L[o].ind = d /\ L[o].ast.op \in {"if", "elif"})
         IN IF afterHeader THEN d > top /\ elifOk /\ IndentOk(L, k + 1, Append(stack, d), IsHeader(L[k].ast))
            ELSE d <= top /\ popped # <<>> /\ popped[Len(popped)] = d /\ elifOk /\ IndentOk(L, k + 1, popped, IsHeader(L[k].ast))

\* whether compile(src, name, "exec") accepts the program
SyntaxOk(statements) ==
    LET L == LogicalLines(statements)
    IN (\A k \in DOMAIN L : ~HasSyntaxError(L[k].ast)) /\ IndentOk(L, 1, <<0>>, FALSE)

Builtins == [list |-> PyType("list"), tuple |-> PyType("tuple"), dict |-> PyType("dict"), enumerate |-> <<"builtin", "enumerate">>, isinstance |-> <<"builtin", "isinstance">>]

\* a name is looked up in the locals, the globals, then the builtins
Lookup(env, id) ==
    IF id \in DOMAIN env.l THEN Ok(env.l[id])
    ELSE IF id \in DOMAIN env.g THEN Ok(env.g[id])
    ELSE IF id \in DOMAIN Builtins THEN Ok(Builtins[id])
    ELSE Raise("NameError")

\* obj.name(*args) for the methods the generated programs call
CallMethod(obj, name, args) ==
    IF name = "items" /\ obj[1] = "dict" THEN Ok(PyList([i \in DOMAIN obj[2] |-> PyTuple(obj[2][i])]))
    ELSE IF name = "copy" /\ obj[1] \in {"dict", "list"} THEN Ok(obj)
    ELSE IF name = "isoformat" /\ obj[1] = "datetime" THEN Ok(PyStr(IsoFormat(obj[2])))
    ELSE IF name = "encode" /\ obj[1] = "str" THEN
        (IF \A i \in DOMAIN obj[2] : obj[2][i] < 128 THEN Ok(PyBytes(obj[2])) ELSE Raise("OutOfModel"))
    ELSE Raise("AttributeError")

\* module.function(*args) for the library functions the generated programs call
CallModule(path, args) ==
    IF path = <<"base64", "b64decode">> THEN
        IF Len(args) # 1 \/ args[1][1] \notin {"bytes", "str"} THEN Raise("TypeError")
        ELSE LET r == B64Decode(args[1][2]) IN IF r.exc # "" THEN r ELSE Ok(PyBytes(r.v))
    ELSE IF path = <<"datetime", "datetime", "fromisoformat">> THEN
        IF Len(args) # 1 \/ args[1][1] # "str" THEN Raise("TypeError")
        ELSE FromIsoFormat(args[1][2])
    ELSE Raise("AttributeError")

\* f(*args) for a callable value f
CallValue(f, args) ==
    IF f[1] = "type" THEN Construct(f[2], args)
    ELSE IF f = <<"builtin", "enumerate">> THEN (IF Len(args) = 1 THEN Enumerate(args[1]) ELSE Raise("TypeError"))
    ELSE IF f = <<"builtin", "isinstance">> THEN
        (IF Len(args) = 2 /\ args[2][1] = "type" THEN Ok(PyBool(IsInstance(args[1], args[2]))) ELSE Raise("TypeError"))
    ELSE Raise("TypeError")

RECURSIVE Eval(_, _)
RECURSIVE EvalAll(_, _)
\* a sequence of expressions, left to right; the first exception ends it
EvalAll(es, env) ==
    IF es = <<>> THEN [exc |-> "", v |-> <<>>]
    ELSE LET h == Eval(Head(es), env)
         IN IF h.exc # "" THEN [exc |-> h.exc, v |-> <<>>]
            ELSE LET t == EvalAll(Tail(es), env)
                 IN IF t.exc # "" THEN t ELSE [exc |-> "", v |-> <<h.v>> \o t.v]

Eval(e, env) ==
    IF e.op = "name" THEN Lookup(env, e.id)
    ELSE IF e.op = "int" THEN Ok(PyInt(e.n))
    ELSE IF e.op = "list_display" THEN Ok(PyList(<<>>))
    ELSE IF e.op = "dict_display" THEN Ok(PyDict(<<>>))
    ELSE IF e.op = "ellipsis" THEN Ok(<<"ellipsis", <<>>>>)
    ELSE IF e.op = "index" THEN
        LET b == Eval(e.base, env)
        IN IF b.exc # "" THEN b
           ELSE LET i == Eval(e.idx, env)
                IN IF i.exc # "" THEN i ELSE GetItem(b.v, i.v)
    ELSE IF e.op = "tuple" THEN
        LET xs == EvalAll(e.elts, env) IN IF xs.exc # "" THEN Raise(xs.exc) ELSE Ok(PyTuple(xs.v))
    ELSE IF e.op = "call" THEN
        LET f == Eval(e.fn, env)
        IN IF f.exc # "" THEN f
           ELSE LET xs == EvalAll(e.args, env)
                IN IF xs.exc # "" THEN Raise(xs.exc) ELSE CallValue(f.v, xs.v)
    ELSE IF e.op = "method" THEN
        LET o == Eval(e.obj, env)
        IN IF o.exc # "" THEN o
           ELSE LET xs == EvalAll(e.args, env)
                IN IF xs.exc # "" THEN Raise(xs.exc) ELSE CallMethod(o.v, e.name, xs.v)
    ELSE IF e.op = "modcall" THEN
        LET m == Lookup(env, e.path[1])
        IN IF m.exc # "" THEN m
           ELSE IF m.v # PyModule(e.path[1]) THEN Raise("AttributeError")
           ELSE LET xs == EvalAll(e.args, env)
                IN IF xs.exc # "" THEN Raise(xs.exc) ELSE CallModule(e.path, xs.v)
    ELSE IF e.op = "eq" THEN
        LET a == Eval(e.left, env)
        IN IF a.exc # "" THEN a
           ELSE LET b == Eval(e.right, env)
                IN IF b.exc # "" THEN b ELSE Ok(PyBool(PyEq(a.v, b.v)))
    ELSE Raise("OutOfModel")

\* the environment after an exception of class exc left the statement at line no
Fail(env, exc, no) == [env EXCEPT !.exc = exc, !.lineno = no]

Bind(env, id, v) == [env EXCEPT !.l = MapSet(@, id, v)]

\* a simple statement (not a for / if header)
ExecSimple(ast, env, no) ==
    IF ast.op = "assign" THEN
        LET val == Eval(ast.value, env)
        IN IF val.exc # "" THEN Fail(env, val.exc, no)
           ELSE IF ast.target.op = "name" THEN Bind(env, ast.target.id, val.v)
           ELSE IF ast.target.op = "index" /\ ast.target.base.op = "name" THEN
               LET b == Lookup(env, ast.target.base.id)
               IN IF b.exc # "" THEN Fail(env, b.exc, no)
                  ELSE LET i == Eval(ast.target.idx, env)
                       IN IF i.exc # "" THEN Fail(env, i.exc, no)
                          ELSE LET st == SetItem(b.v, i.v, val.v)
                               IN IF st.exc # "" THEN Fail(env, st.exc, no)
                                  ELSE Bind(env, ast.target.base.id, st.v)
           ELSE Fail(env, "OutOfModel", no)
    ELSE IF ast.op = "append" THEN
        LET b == Lookup(env, ast.obj)
        IN IF b.exc # "" THEN Fail(env, b.exc, no)
           ELSE LET val == Eval(ast.value, env)
                IN IF val.exc # "" THEN Fail(env, val.exc, no)
                   ELSE IF b.v[1] # "list" THEN Fail(env, "AttributeError", no)
                   ELSE Bind(env, ast.obj, PyList(Append(b.v[2], val.v)))
    ELSE LET val == Eval(ast, env)
         IN IF val.exc # "" THEN Fail(env, val.exc, no) ELSE env

\* for a, b in ...: the targets bound to one item
BindTargets(env, targets, item, no) ==
    IF Len(targets) = 1 THEN Bind(env, targets[1], item)
    ELSE LET it == Iterate(item)
         IN IF it.exc # "" THEN Fail(env, "TypeError", no)
            ELSE IF Len(it.v) # Len(targets) THEN Fail(env, "ValueError", no)
            ELSE [env EXCEPT !.l = [x \in (DOMAIN env.l) \cup Range(targets) |-> IF x \in Range(targets) THEN it.v[CHOOSE k \in DOMAIN targets : targets[k] = x /\ \A k2 \in DOMAIN targets : targets[k2] = x => k2 <= k] ELSE env.l[x]]]

\* the first line after line k's block
RECURSIVE BlockEnd(_, _, _)
BlockEnd(L, k, j) == IF j > Len(L) \/ L[j].ind <= L[k].ind THEN j ELSE BlockEnd(L, k, j + 1)

\* the first line at or after j that is not an elif clause of the if statement at indent ind
RECURSIVE SkipElifs(_, _, _)
SkipElifs(L, j, ind) ==
    IF j <= Len(L) /\ L[j].ind = ind /\ L[j].ast.op = "elif" THEN SkipElifs(L, BlockEnd(L, j, j + 1), ind) ELSE j

RECURSIVE ExecRange(_, _, _, _)
RECURSIVE ExecFor(_, _, _, _, _, _)
\* the lines lo..hi, in order
ExecRange(L, lo, hi, env) ==
    IF lo > hi \/ env.exc # "" THEN env
    ELSE LET ast == L[lo].ast
             no == L[lo].no
             be == BlockEnd(L, lo, lo + 1)
         IN IF ast.op = "for" THEN
                LET items == Eval(ast.iter, env)
                    its == IF items.exc # "" THEN items ELSE Iterate(items.v)
                IN IF its.exc # "" THEN Fail(env, its.exc, no)
                   ELSE ExecRange(L, be, hi, ExecFor(L, lo, be, its.v, 1, env))
            ELSE IF ast.op \in {"if", "elif"} THEN
                LET t == Eval(ast.test, env)
                IN IF t.exc # "" THEN Fail(env, t.exc, no)
                   ELSE IF Truthy(t.v) THEN ExecRange(L, SkipElifs(L, be, L[lo].ind), hi, ExecRange(L, lo + 1, be - 1, env))
                   ELSE ExecRange(L, be, hi, env)
            ELSE ExecRange(L, lo + 1, hi, ExecSimple(ast, env, no))

\* the body of the for statement at line hdr, once per item from the k-th on
ExecFor(L, hdr, be, items, k, env) ==
    IF k > Len(items) \/ env.exc # "" THEN env
    ELSE LET bound == BindTargets(env, L[hdr].ast.targets, items[k], L[hdr].no)
         IN ExecFor(L, hdr, be, items, k + 1, ExecRange(L, hdr + 1, be - 1, bound))

\* exec(code, globals, locals)
Exec(statements, globals, locals) ==
    LET L == LogicalLines(statements)
    IN ExecRange(L, 1, Len(L), [g |-> globals, l |-> locals, exc |-> "", lineno |-> 0])

(***************************************************************************)
(* Type hints.  A hint is [k, a]: k names the class or the typing form, a  *)
(* is the tuple of its type arguments (empty for a bare class).            *)
(*   list[int]            [k |-> "list", a |-> <<int>>]                    *)
(*   typing.Union[X, Y]   k = "Union"      (also typing.Optional[X])       *)
(*   X | Y                k = "UnionType"                                  *)
(*   ...                  k = "Ellipsis"                                   *)
(***************************************************************************)
Cls(k) == [k |-> k, a |-> <<>>]

Gen(k, args) == [k |-> k, a |-> args]

EllipsisT == Cls("Ellipsis")

NoneT == Cls("NoneType")

\* the classes of the model; types.UnionType is a class, typing.Union is not
Classes == {"str", "int", "float", "bool", "NoneType", "bytes", "bytearray", "datetime", "list", "tuple", "dict", "complex", "types.UnionType"}

\* typing.get_origin(tp), "None" when there is none
get_origin(tp) ==
    IF tp.k = "Union" THEN "typing.Union"
    ELSE IF tp.k = "UnionType" THEN "types.UnionType"
    ELSE IF tp.a # <<>> THEN tp.k
    ELSE "None"

\* typing.get_args(tp)
get_args(tp) == tp.a

\* typing.Union[args]: a union of one member is that member
MakeUnion(args) == IF Len(args) = 1 THEN args[1] ELSE Gen("Union", args)

\* issubclass(c, collections.abc.Mapping)
IsMapping(c) == c = "dict"

\* issubclass(c, collections.abc.Collection)
IsCollection(c) == c \in {"list", "tuple", "dict", "str", "bytes", "bytearray"}

\* issubclass(c, _SimpleJson)
IsSimpleJson(c) == c \in {"str", "int", "float", "bool", "NoneType"}

(***************************************************************************)
(* json_serialization.py                                                   *)
(***************************************************************************)
\* str(n) for an integer
RECURSIVE Decimal(_)
Decimal(n) == IF n < 0 THEN <<45>> \o Decimal(0 - n) ELSE IF n < 10 THEN <<48 + n>> ELSE Decimal(n \div 10) \o <<48 + (n % 10)>>

\* the text json.dumps gives for a text of printable ASCII: quoted, with the quote
\* and the backslash escaped
RECURSIVE JsonEscape(_)
JsonEscape(cps) == IF cps = <<>> THEN <<>> ELSE (IF Head(cps) \in {34, 92} THEN <<92, Head(cps)>> ELSE <<Head(cps)>>) \o JsonEscape(Tail(cps))

\* json.dumps(v) for a JSON value, as code points
RECURSIVE JsonDumps(_)
RECURSIVE JsonDumpsJoin(_, _)
JsonDumpsJoin(parts, i) ==
    IF i > Len(parts) THEN <<>>
    ELSE (IF i > 1 THEN <<44, 32>> ELSE <<>>) \o parts[i] \o JsonDumpsJoin(parts, i + 1)

JsonDumps(v) ==
    IF v[1] = "str" THEN <<34>> \o JsonEscape(v[2]) \o <<34>>
    ELSE IF v[1] = "bool" THEN (IF v[2] THEN <<116, 114, 117, 101>> ELSE <<102, 97, 108, 115, 101>>)
    ELSE IF v[1] = "int" THEN Decimal(v[2])
    ELSE IF v[1] = "NoneType" THEN <<110, 117, 108, 108>>
    ELSE IF v[1] = "dict" THEN <<123>> \o JsonDumpsJoin([i \in DOMAIN v[2] |-> JsonDumps(v[2][i][1]) \o <<58, 32>> \o JsonDumps(v[2][i][2])], 1) \o <<125>>
    ELSE <<91>> \o JsonDumpsJoin([i \in DOMAIN v[2] |-> JsonDumps(v[2][i])], 1) \o <<93>>

\* the first exception among the outcomes rs ("" if none was raised)
RECURSIVE FirstExc(_, _)
FirstExc(rs, i) == IF i > Len(rs) THEN "" ELSE IF rs[i].exc # "" THEN rs[i].exc ELSE FirstExc(rs, i + 1)

\* the dict a comprehension builds from (key, value) pairs: a later pair with an
\* equal key replaces the value of the earlier one
RECURSIVE DictOf(_, _)
DictOf(pairs, acc) == IF pairs = <<>> THEN acc ELSE DictOf(Tail(pairs), DictSet(acc, Head(pairs)[1], Head(pairs)[2]))

\* _serialize_json_type_blind(data); no value of the model has a serialize_json
\* attribute
RECURSIVE _serialize_json_type_blind(_)
_serialize_json_type_blind(d) ==
    IF d[1] \in {"str", "int", "float", "bool", "NoneType"} THEN Ok(d)
    ELSE IF d[1] = "bytes" THEN Ok(PyStr(B64Encode(d[2])))
    ELSE IF d[1] = "dict" THEN
        LET rs == [i \in 1..(2 * Len(d[2])) |-> _serialize_json_type_blind(d[2][(i + 1) \div 2][2 - (i % 2)])]
        IN IF FirstExc(rs, 1) # "" THEN Raise(FirstExc(rs, 1))
           ELSE Ok(PyDict(DictOf([i \in DOMAIN d[2] |-> <<PyStr(JsonDumps(rs[2 * i - 1].v)), rs[2 * i].v>>], <<>>)))
    ELSE IF d[1] \in {"list", "tuple"} THEN
        LET rs == [i \in DOMAIN d[2] |-> _serialize_json_type_blind(d[2][i])]
        IN IF FirstExc(rs, 1) # "" THEN Raise(FirstExc(rs, 1))
           ELSE Ok(PyList([i \in DOMAIN rs |-> rs[i].v]))
    ELSE IF d[1] = "datetime" THEN Ok(PyStr(IsoFormat(d[2])))
    ELSE IF pydantic THEN Raise("SerializationError")
    ELSE Raise("NameError")

RECURSIVE issubclass_json_type(_)
issubclass_json_type(tp) ==
    IF tp.a = <<>> /\ tp.k \in {"str", "int", "float", "bool", "NoneType"} THEN TRUE
    ELSE IF tp.a = <<>> /\ tp.k \in {"bytes", "bytearray"} THEN FALSE
    ELSE LET origin == get_origin(tp)
             args == get_args(tp)
         IN IF origin \in {"typing.Union", "types.UnionType"} THEN \A i \in DOMAIN args : issubclass_json_type(args[i])
            ELSE IF origin # "None" /\ IsMapping(origin) THEN
                IF Len(args) # 2 THEN FALSE
                ELSE args[1] = Cls("str") /\ issubclass_json_type(args[2])
            ELSE IF origin # "None" /\ IsCollection(origin) THEN
                IF args = <<>> THEN FALSE
                ELSE IF origin = "tuple" THEN
                    IF Len(args) = 2 /\ args[2] = EllipsisT THEN issubclass_json_type(args[1])
                    ELSE \A i \in DOMAIN args : issubclass_json_type(args[i])
                ELSE IF Len(args) # 1 THEN FALSE
                ELSE issubclass_json_type(args[1])
            ELSE FALSE

\* the build is aborted by an exception of class e
Raising(g, e) == [g EXCEPT !.exc = e]

\* "remove None from union types": only an X | Y hint is an instance of
\* types.UnionType; typing.Union[...] hints are left as they are
RemoveNone(type_) ==
    IF type_.k = "UnionType" /\ NoneT \in Range(type_.a) THEN MakeUnion(SelectSeq(type_.a, LAMBDA arg : arg # NoneT))
    ELSE type_

\* base_class = typing.get_origin(type_); base_class = type_ if base_class is None else base_class
BaseClass(type_) == IF get_origin(type_) = "None" THEN type_.k ELSE get_origin(type_)

\* "if pydantic is not None:" and the two issubclass tests under it, for a class that
\* is no pydantic model: the name pydantic is unbound when the import failed
PydanticFallthrough(g, notSupported) == IF pydantic THEN Raising(g, notSupported) ELSE Raising(g, "NameError")

RECURSIVE _compile_json_serializer(_, _, _, _)
RECURSIVE _ser_fixed_tuple(_, _, _, _, _)

\* the mapping branch of _compile_json_serializer
_ser_mapping(type_, args, in_var, out_var, codegen) ==
    IF Len(args) # 2 THEN Raising(codegen, "DeserializationError")
    ELSE LET vs == get_vars(codegen, 1)
         IN IF Len(vs.r) # 2 THEN Raising(vs.cg, "ValueError")
            ELSE LET key_var == vs.r[1]
                     value_var == vs.r[2]
                 IN IF args[1].a # <<>> \/ args[1].k \notin Classes THEN Raising(vs.cg, "TypeError")
                    ELSE IF args[1].k = "str" THEN
                        LET g1 == literal(vs.cg, AssignLine(out_var, Method0(in_var, "copy")))
                            g2 == literal(g1, For2(key_var, value_var, Method0(out_var, "items")))
                            g3 == _compile_json_serializer(args[1], Name(value_var), Name(value_var), indent(g2))
                        IN IF g3.exc # "" THEN g3
                           ELSE dedent(assign(g3, Subscript(out_var, Name(key_var)), Name(value_var)))
                    ELSE
                        LET g1 == literal(vs.cg, AssignLine(out_var, EmptyDictDisplay))
                            g2 == literal(g1, For2(key_var, value_var, Method0(in_var, "items")))
                            g3 == _compile_json_serializer(args[1], Name(key_var), Name(key_var), indent(g2))
                            g4 == IF g3.exc # "" THEN g3 ELSE _compile_json_serializer(args[2], Name(value_var), Name(value_var), g3)
                        IN IF g4.exc # "" THEN g4
                           ELSE dedent(assign(g4, Subscript(out_var, Name(key_var)), Name(value_var)))

\* the loop "for i, elem_type in enumerate(args)" of the fixed tuple branch, from the
\* i-th argument on (i counts from 0); the result is the builder and the list "out"
_ser_fixed_tuple(args, i, out_var, out, codegen) ==
    IF i >= Len(args) \/ codegen.exc # "" THEN [cg |-> codegen, out |-> out]
    ELSE LET v == get_var(codegen)
             g1 == _compile_json_serializer(args[i + 1], SubscriptNum(out_var, i), Name(v.r), v.cg)
         IN _ser_fixed_tuple(args, i + 1, out_var, Append(out, v.r), g1)

\* the collection branch of _compile_json_serializer
_ser_collection(type_, base_class, args, in_var, out_var, codegen) ==
    IF base_class = "tuple" /\ ~(Len(args) = 2 /\ args[2] = EllipsisT) THEN
        LET r == _ser_fixed_tuple(args, 0, out_var, <<>>, codegen)
        IN IF r.cg.exc # "" THEN r.cg ELSE assign(r.cg, out_var, TupleDisplay(r.out))
    ELSE IF args = <<>> THEN Raising(codegen, "IndexError")
    ELSE LET args1 == IF args[Len(args)] = EllipsisT THEN SubSeq(args, 1, Len(args) - 1) ELSE args
         IN IF Len(args1) # 1 THEN Raising(codegen, "DeserializationError")
            ELSE LET vs == get_vars(codegen, 2)
                     elem_i == vs.r[1]
                     elem_var == vs.r[2]
                     g1 == assign(vs.cg, out_var, Call1("list", in_var))
                     g2 == literal(g1, For2(elem_i, elem_var, Call1("enumerate", out_var)))
                     g3 == _compile_json_serializer(args1[1], Name(elem_var), Name(elem_var), indent(g2))
                 IN IF g3.exc # "" THEN g3
                    ELSE dedent(assign(g3, Subscript(out_var, Name(elem_i)), Name(elem_var)))

_compile_json_serializer(type_0, in_var, out_var, codegen) ==
    IF issubclass_json_type(type_0) THEN assign(codegen, out_var, in_var)
    ELSE LET type_ == RemoveNone(type_0)
             base_class == BaseClass(type_)
             args == get_args(type_)
         IN IF base_class \notin Classes THEN Raising(codegen, "SerializationError")
            ELSE IF IsSimpleJson(base_class) THEN assign(codegen, out_var, in_var)
            ELSE IF IsMapping(base_class) THEN _ser_mapping(type_, args, in_var, out_var, codegen)
            ELSE IF IsCollection(base_class) THEN _ser_collection(type_, base_class, args, in_var, out_var, codegen)
            ELSE IF base_class = "bytes" THEN assign(ensure_import(codegen, "base64"), out_var, B64DecodeOfEncode(in_var))
            ELSE IF base_class = "datetime" THEN assign(codegen, out_var, Method0(in_var, "isoformat"))
            ELSE PydanticFallthrough(codegen, "SerializationError")

RECURSIVE _compile_json_deserializer(_, _, _, _)
RECURSIVE _deser_fixed_tuple(_, _, _, _, _)

\* the mapping branch of _compile_json_deserializer
_deser_mapping(type_, base_class, args, in_var, out_var, codegen) ==
    IF Len(args) # 2 THEN Raising(codegen, "DeserializationError")
    ELSE LET c == get_const(codegen, PyType(base_class))
             base_class_name == c.r
             vs == get_vars(c.cg, 2)
             key_var == vs.r[1]
             value_var == vs.r[2]
             g1 == assign(vs.cg, out_var, Call0(base_class_name))
             g2 == literal(g1, For2(key_var, value_var, Method0(in_var, "items")))
             g3 == _compile_json_deserializer(args[1], Name(key_var), Name(key_var), indent(g2))
             g4 == IF g3.exc # "" THEN g3 ELSE _compile_json_deserializer(args[2], Name(value_var), Name(value_var), g3)
         IN IF g4.exc # "" THEN g4
            ELSE dedent(assign(g4, Subscript(out_var, Name(key_var)), Name(value_var)))

\* the loop "for i, elem_type in enumerate(args)" of the fixed tuple branch
_deser_fixed_tuple(args, i, in_var, out, codegen) ==
    IF i >= Len(args) \/ codegen.exc # "" THEN [cg |-> codegen, out |-> out]
    ELSE LET v == get_var(codegen)
             g1 == _compile_json_deserializer(args[i + 1], SubscriptNum(in_var, i), Name(v.r), v.cg)
         IN _deser_fixed_tuple(args, i + 1, in_var, Append(out, v.r), g1)

\* the collection branch of _compile_json_deserializer
_deser_collection(type_, base_class, args, in_var, out_var, codegen) ==
    IF base_class = "tuple" /\ ~(Len(args) = 2 /\ args[2] = EllipsisT) THEN
        LET r == _deser_fixed_tuple(args, 0, in_var, <<>>, codegen)
        IN IF r.cg.exc # "" THEN r.cg ELSE assign(r.cg, out_var, TupleDisplay(r.out))
    ELSE IF args = <<>> THEN Raising(codegen, "IndexError")
    ELSE LET args1 == IF args[Len(args)] = EllipsisT THEN SubSeq(args, 1, Len(args) - 1) ELSE args
         IN IF Len(args1) # 1 THEN Raising(codegen, "DeserializationError")
            ELSE LET c == get_const(codegen, PyType(base_class))
                     base_class_name == c.r
                     v == get_var(c.cg)
                     elem_var == v.r
                     g1 == assign(v.cg, out_var, EmptyListDisplay)
                     g2 == literal(g1, For1(elem_var, in_var))
                     g3 == _compile_json_deserializer(args1[1], Name(elem_var), Name(elem_var), indent(g2))
                 IN IF g3.exc # "" THEN g3
                    ELSE assign(dedent(literal(g3, AppendLine(out_var, Name(elem_var)))), out_var, Call1(base_class_name, out_var))

_compile_json_deserializer(type_0, in_var, out_var, codegen) ==
    IF issubclass_json_type(type_0) THEN assign(codegen, out_var, in_var)
    ELSE LET type_ == RemoveNone(type_0)
             base_class == BaseClass(type_)
             args == get_args(type_)
         IN IF base_class \notin Classes THEN Raising(codegen, "DeserializationError")
            ELSE IF IsSimpleJson(base_class) THEN assign(codegen, out_var, in_var)
            ELSE IF IsMapping(base_class) THEN _deser_mapping(type_, base_class, args, in_var, out_var, codegen)
            ELSE IF IsCollection(base_class) THEN _deser_collection(type_, base_class, args, in_var, out_var, codegen)
            ELSE IF base_class = "bytes" THEN assign(ensure_import(codegen, "base64"), out_var, B64DecodeOfEncode(in_var))
            ELSE IF base_class = "datetime" THEN assign(ensure_import(codegen, "datetime"), out_var, FromIsoFormatOf(in_var))
            ELSE PydanticFallthrough(codegen, "DeserializationError")

(***************************************************************************)
(* code_generator.py: rendering and finalizing a program.                  *)
(***************************************************************************)
RECURSIVE Spaces(_)
\* "    " * indent
Spaces(n) == IF n <= 0 THEN "" ELSE "    " \o Spaces(n - 1)

\* the list "lines" of CodeGenerator.to_str
SourceLines(g) == [i \in DOMAIN g.statements |-> Spaces(g.statements[i][1]) \o StatementToStr(g.statements[i][2])]

RECURSIVE JoinLines(_)
\* "\n".join(lines)
JoinLines(lines) == IF lines = <<>> THEN "" ELSE IF Len(lines) = 1 THEN lines[1] ELSE lines[1] \o "\n" \o JoinLines(Tail(lines))

to_str(g) == JoinLines(SourceLines(g))

\* CodeGenerator.compile: the Compiled Routine (the closure func with what it captures:
\* src, name, code, self.consts, in_var, out_var), or the exception compile() raised
compile(g, name, in_var, out_var) ==
    [exc |-> IF SyntaxOk(g.statements) THEN "" ELSE "SyntaxError",
     name |-> name, src |-> to_str(g), lines |-> SourceLines(g), code |-> g.statements,
     consts |-> g.consts, in_var |-> in_var, out_var |-> out_var]

\* a build that an exception ended returns no routine
NoRoutine(exc) == [exc |-> exc, name |-> "", src |-> "", lines |-> <<>>, code |-> <<>>, consts |-> EmptyMap, in_var |-> "", out_var |-> ""]

RECURSIVE TypeRepr(_)
RECURSIVE ArgsRepr(_, _)
ArgsRepr(args, sep) == IF args = <<>> THEN "" ELSE IF Len(args) = 1 THEN TypeRepr(args[1]) ELSE TypeRepr(args[1]) \o sep \o ArgsRepr(Tail(args), sep)

\* how a hint is shown inside the repr of another hint
TypeRepr(tp) ==
    IF tp.k = "Union" THEN "typing.Union[" \o ArgsRepr(tp.a, ", ") \o "]"
    ELSE IF tp.k = "UnionType" THEN ArgsRepr(tp.a, " | ")
    ELSE IF tp.k = "Ellipsis" THEN "..."
    ELSE IF tp.k = "NoneType" THEN "None"
    ELSE LET n == IF tp.k = "datetime" THEN "datetime.datetime" ELSE tp.k
         IN IF tp.a = <<>> THEN n ELSE n \o "[" \o ArgsRepr(tp.a, ", ") \o "]"

\* repr(type_)
Repr(tp) ==
    IF tp.a = <<>> /\ tp.k \in Classes THEN "<class '" \o (IF tp.k = "datetime" THEN "datetime.datetime" ELSE tp.k) \o "'>"
    ELSE IF tp.k = "Ellipsis" THEN "Ellipsis"
    ELSE TypeRepr(tp)

compile_json_serializer(type_) ==
    LET codegen == _compile_json_serializer(type_, Name("inp"), Name("out"), NewCodeGenerator)
    IN IF codegen.exc # "" THEN NoRoutine(codegen.exc)
       ELSE compile(codegen, "<pipifax_io compiled json serialization for " \o Repr(type_) \o ">", "inp", "out")

compile_json_deserializer(type_) ==
    LET codegen == _compile_json_deserializer(type_, Name("inp"), Name("out"), NewCodeGenerator)
    IN IF codegen.exc # "" THEN NoRoutine(codegen.exc)
       ELSE compile(codegen, "<pipifax_io compiled json deserialization for " \o Repr(type_) \o ">", "inp", "out")

(***************************************************************************)
(* type_serializer.py.  SerializerCodegen and DeserializerCodegen are      *)
(* abstract: is_scalar, scalar and tuple_ are left to a subclass that the  *)
(* repository does not contain.  They are modelled as the specification    *)
(* describes the primitive and the fixed tuple case: a primitive           *)
(* (str / int / float / bool / null) is a scalar and is converted by an    *)
(* identity assignment; a fixed tuple is assembled from its variables.     *)
(***************************************************************************)
is_scalar(type_) == type_.a = <<>> /\ type_.k \in {"str", "int", "float", "bool", "NoneType"}

scalar(type_, in_var, out_var, codegen) == assign(codegen, out_var, in_var)

tuple_(in_vars, out_var, codegen) == assign(codegen, out_var, TupleDisplay(in_vars))

\* read_type_hint: (base_type, args)
read_type_hint(type_) == [base_type |-> BaseClass(type_), args |-> get_args(type_)]

\* base_types of union(): the origin of each member, the member itself when it has none
UnionBaseTypes(args) == [i \in DOMAIN args |-> BaseClass(args[i])]

\* the first loop of SerializerCodegen.union: two members with the same base type
UnionCollision(base_types) == \E i, j \in DOMAIN base_types : i # j /\ base_types[i] = base_types[j]

\* the text "if isinstance(x, c):" / "elif isinstance(x, c):"
IfIsInstance(i, x, c) == Frag((IF i # 0 THEN "el" ELSE "") \o "if isinstance(" \o x.txt \o ", " \o c \o "):", [op |-> IF i # 0 THEN "elif" ELSE "if", test |-> [op |-> "call", fn |-> [op |-> "name", id |-> "isinstance"], args |-> <<x.ast, [op |-> "name", id |-> c]>>]])

\* the text "if x[0] == i:" / "elif x[0] == i:"
IfTagIs(i, x) == Frag((IF i # 0 THEN "el" ELSE "") \o "if " \o x.txt \o "[0] == " \o ToString(i) \o ":", [op |-> IF i # 0 THEN "elif" ELSE "if", test |-> [op |-> "eq", left |-> SubscriptNum(x, 0).ast, right |-> [op |-> "int", n |-> i]]])

RECURSIVE SerializerCodegen_any(_, _, _, _)
RECURSIVE SerializerCodegen_union_loop(_, _, _, _, _)
RECURSIVE SerializerCodegen_tuple_loop(_, _, _, _, _)

\* the second loop of SerializerCodegen.union, from member i on (i counts from 0)
SerializerCodegen_union_loop(args, i, in_var, out_var, codegen) ==
    IF i >= Len(args) \/ codegen.exc # "" THEN codegen
    ELSE LET c == get_const(codegen, PyType(BaseClass(args[i + 1])))
             g1 == indent(literal(c.cg, IfIsInstance(i, in_var, c.r)))
             tmp == assign_new(g1, NumPair(i, in_var))
             g2 == SerializerCodegen_any(Gen("tuple", <<Cls("int"), args[i + 1]>>), Name(tmp.r), out_var, tmp.cg)
         IN IF g2.exc # "" THEN g2 ELSE SerializerCodegen_union_loop(args, i + 1, in_var, out_var, dedent(g2))

SerializerCodegen_union(args, in_var, out_var, codegen) ==
    IF UnionCollision(UnionBaseTypes(args)) THEN Raising(codegen, "SerializationError")
    ELSE SerializerCodegen_union_loop(args, 0, in_var, out_var, codegen)

SerializerCodegen_mapping(key_type, value_type, in_var, out_var, codegen) ==
    SerializerCodegen_any(Gen("list", <<Gen("tuple", <<key_type, value_type>>)>>), in_var, out_var, assign(codegen, in_var, Call1("list", Method0(in_var, "items"))))

SerializerCodegen_collection(element_type, in_var, out_var, codegen) ==
    LET vs == get_vars(codegen, 2)
        elem_i == vs.r[1]
        elem_var == vs.r[2]
        g1 == assign(vs.cg, out_var, Call1("list", in_var))
        g2 == indent(literal(g1, For2(elem_i, elem_var, Call1("enumerate", out_var))))
        g3 == SerializerCodegen_any(element_type, Name(elem_var), Name(elem_var), g2)
    IN IF g3.exc # "" THEN g3 ELSE dedent(assign(g3, Subscript(out_var, Name(elem_i)), Name(elem_var)))

\* the loop of the fixed tuple branch of SerializerCodegen.type_
SerializerCodegen_tuple_loop(args, args_vars, i, in_var, codegen) ==
    IF i >= Len(args) \/ codegen.exc # "" THEN codegen
    ELSE LET tmp == assign_new(codegen, SubscriptNum(in_var, i))
         IN SerializerCodegen_tuple_loop(args, args_vars, i + 1, in_var, SerializerCodegen_any(args[i + 1], Name(tmp.r), Name(args_vars[i + 1]), tmp.cg))

SerializerCodegen_type_(type_, base_type, args, in_var, out_var, codegen) ==
    IF IsMapping(base_type) THEN
        IF Len(args) # 2 THEN Raising(codegen, "SerializationError")
        ELSE SerializerCodegen_mapping(args[1], args[2], in_var, out_var, codegen)
    ELSE IF IsCollection(base_type) /\ base_type \notin {"str", "bytes"} THEN
        IF base_type = "tuple" /\ ~(Len(args) = 2 /\ args[2] = EllipsisT) THEN
            LET vs == get_vars(codegen, Len(args))
                g1 == SerializerCodegen_tuple_loop(args, vs.r, 0, in_var, vs.cg)
            IN IF g1.exc # "" THEN g1 ELSE tuple_(vs.r, out_var, g1)
        ELSE IF args = <<>> THEN Raising(codegen, "IndexError")
        ELSE LET args1 == IF args[Len(args)] = EllipsisT THEN SubSeq(args, 1, Len(args) - 1) ELSE args
             IN IF Len(args1) # 1 THEN Raising(codegen, "SerializationError")
                ELSE SerializerCodegen_collection(args1[1], in_var, out_var, codegen)
    ELSE Raising(codegen, "SerializationError")

SerializerCodegen_any(type_, in_var, out_var, codegen) ==
    IF is_scalar(type_) THEN scalar(type_, in_var, out_var, codegen)
    ELSE LET h == read_type_hint(type_)
         IN IF h.base_type \in {"typing.Union", "types.UnionType"} THEN SerializerCodegen_union(h.args, in_var, out_var, codegen)
            ELSE IF h.base_type \notin Classes THEN Raising(codegen, "TypeHintError")
            ELSE SerializerCodegen_type_(type_, h.base_type, h.args, in_var, out_var, codegen)

RECURSIVE DeserializerCodegen_any(_, _, _, _)
RECURSIVE DeserializerCodegen_union_loop(_, _, _, _, _)
RECURSIVE DeserializerCodegen_tuple_loop(_, _, _, _, _)

\* the loop of DeserializerCodegen.union, from member i on (i counts from 0)
DeserializerCodegen_union_loop(args, i, in_var, out_var, codegen) ==
    IF i >= Len(args) \/ codegen.exc # "" THEN codegen
    ELSE LET g1 == indent(literal(codegen, IfTagIs(i, in_var)))
             tmp == assign_new(g1, SubscriptNum(in_var, 1))
             g2 == DeserializerCodegen_any(args[i + 1], Name(tmp.r), out_var, tmp.cg)
         IN IF g2.exc # "" THEN g2 ELSE DeserializerCodegen_union_loop(args, i + 1, in_var, out_var, dedent(g2))

DeserializerCodegen_union(args, in_var, out_var, codegen) == DeserializerCodegen_union_loop(args, 0, in_var, out_var, codegen)

DeserializerCodegen_mapping(class_, key_type, value_type, in_var, out_var, codegen) ==
    LET c == get_const(codegen, PyType(class_))
        vs == get_vars(c.cg, 3)
        tmp == vs.r[1]
        key_var == vs.r[2]
        value_var == vs.r[3]
        g1 == assign(vs.cg, Name(tmp), Call0(c.r))
        g2 == indent(literal(g1, For2(key_var, value_var, in_var)))
        g3 == DeserializerCodegen_any(key_type, Name(key_var), Name(key_var), g2)
        g4 == IF g3.exc # "" THEN g3 ELSE DeserializerCodegen_any(value_type, Name(value_var), Name(value_var), g3)
    IN IF g4.exc # "" THEN g4
       ELSE assign(dedent(assign(g4, Subscript(Name(tmp), Name(key_var)), Name(value_var))), out_var, Name(tmp))

DeserializerCodegen_collection(class_, element_type, in_var, out_var, codegen) ==
    LET c == get_const(codegen, PyType(class_))
        vs == get_vars(c.cg, 2)
        elem_i == vs.r[1]
        elem_var == vs.r[2]
        g1 == assign(vs.cg, out_var, Call1(c.r, in_var))
        g2 == indent(literal(g1, For2(elem_i, elem_var, Call1("enumerate", in_var))))
        g3 == DeserializerCodegen_any(element_type, Name(elem_var), Name(elem_var), g2)
    IN IF g3.exc # "" THEN g3 ELSE dedent(assign(g3, Subscript(out_var, Name(elem_i)), Name(elem_var)))

\* the loop of the fixed tuple branch of DeserializerCodegen.type_
DeserializerCodegen_tuple_loop(args, args_vars, i, in_var, codegen) ==
    IF i >= Len(args) \/ codegen.exc # "" THEN codegen
    ELSE LET tmp == assign_new(codegen, SubscriptNum(in_var, i))
         IN DeserializerCodegen_tuple_loop(args, args_vars, i + 1, in_var, DeserializerCodegen_any(args[i + 1], Name(tmp.r), Name(args_vars[i + 1]), tmp.cg))

DeserializerCodegen_type_(type_, base_type, args, in_var, out_var, codegen) ==
    IF IsMapping(base_type) THEN
        IF Len(args) # 2 THEN Raising(codegen, "SerializationError")
        ELSE DeserializerCodegen_mapping(base_type, args[1], args[2], in_var, out_var, codegen)
    ELSE IF IsCollection(base_type) /\ base_type \notin {"str", "bytes"} THEN
        IF base_type = "tuple" /\ ~(Len(args) = 2 /\ args[2] = EllipsisT) THEN
            LET vs == get_vars(codegen, Len(args))
                g1 == DeserializerCodegen_tuple_loop(args, vs.r, 0, in_var, vs.cg)
            IN IF g1.exc # "" THEN g1 ELSE tuple_(vs.r, out_var, g1)
        ELSE IF args = <<>> THEN Raising(codegen, "IndexError")
        ELSE LET args1 == IF args[Len(args)] = EllipsisT THEN SubSeq(args, 1, Len(args) - 1) ELSE args
             IN IF Len(args1) # 1 THEN Raising(codegen, "SerializationError")
                ELSE DeserializerCodegen_collection(base_type, args1[1], in_var, out_var, codegen)
    ELSE Raising(codegen, "SerializationError")

DeserializerCodegen_any(type_, in_var, out_var, codegen) ==
    IF is_scalar(type_) THEN scalar(type_, in_var, out_var, codegen)
    ELSE LET h == read_type_hint(type_)
         IN IF h.base_type \in {"typing.Union", "types.UnionType"} THEN DeserializerCodegen_union(h.args, in_var, out_var, codegen)
            ELSE IF h.base_type \notin Classes THEN Raising(codegen, "TypeHintError")
            ELSE DeserializerCodegen_type_(type_, h.base_type, h.args, in_var, out_var, codegen)

\* a routine built with one of the two classes: a fresh builder, any() from the
\* canonical names, CodeGenerator.compile
CodegenRoutine(isSerializer, type_) ==
    LET g == IF isSerializer THEN SerializerCodegen_any(type_, Name("inp"), Name("out"), NewCodeGenerator)
             ELSE DeserializerCodegen_any(type_, Name("inp"), Name("out"), NewCodeGenerator)
    IN IF g.exc # "" THEN NoRoutine(g.exc)
       ELSE compile(g, (IF isSerializer THEN "<serializer for " ELSE "<deserializer for ") \o Repr(type_) \o ">", "inp", "out")

(***************************************************************************)
(* pipifax_lengthed_generator.  A generator object is a record: the items  *)
(* its body yields and how many of them it has yielded.                    *)
(***************************************************************************)
_GeneratorLengthHint(length) == <<"_GeneratorLengthHint", length>>

length_hint(length) == _GeneratorLengthHint(length)

\* generator_func(*args, **kwargs): a generator that has not started
Generator(items) == [kind |-> "generator", items |-> items, pos |-> 0, length |-> 0]

\* generator.send(None): the generator after the call and the item it yielded, or
\* StopIteration
send(g) ==
    IF g.pos < Len(g.items) THEN [g |-> [g EXCEPT !.pos = @ + 1], r |-> g.items[g.pos + 1], stop |-> FALSE]
    ELSE [g |-> g, r |-> PyNone, stop |-> TRUE]

\* next(it, None)
NextOrNone(it) == send(it)

\* _LengthedGenerator(generator, length): send and throw delegate to the generator,
\* so the object is the generator with a length
_LengthedGenerator(generator, length) == [generator EXCEPT !.kind = "_LengthedGenerator", !.length = length]

\* the function generator_length returns
wrapper(items) ==
    LET n == NextOrNone(Generator(items))
    IN IF n.r[1] = "_GeneratorLengthHint" THEN _LengthedGenerator(n.g, n.r[2]) ELSE n.g

(***************************************************************************)
(* code_generator.py: invoking a Compiled Routine.                         *)
(*                                                                         *)
(*     def func(data):                                                     *)
(*         with _TracebackSourceContextManager(src, name):                 *)
(*             scope = {in_var: data}                                      *)
(*             exec(code, self.consts, scope)                              *)
(*             return scope[out_var]                                       *)
(*                                                                         *)
(* An exception is [cls, frame, tb_lineno, notes]: its class, the frame    *)
(* that raised it ("generated": the frame of the generated program, which  *)
(* is exc_tb.tb_next for __exit__; "func": func's own frame, for which     *)
(* tb_next is None; "__exit__"), the line of the generated program, the    *)
(* notes added to it.  cls = "" stands for no exception.                   *)
(***************************************************************************)
NoExc == [cls |-> "", frame |-> "", tb_lineno |-> 0, notes |-> <<>>]

Exc(cls, frame, lineno) == [cls |-> cls, frame |-> frame, tb_lineno |-> lineno, notes |-> <<>>]

\* _TracebackSourceContextManager.__enter__
__enter__(c, r) == MapSet(c, r.name, [size |-> Len(r.src), mtime |-> "None", lines |-> [i \in DOMAIN r.lines |-> r.lines[i] \o "\n"], fullname |-> r.name])

\* scope[out_var] after exec(code, self.consts, scope) left the scope env
ScopeResult(r, env) ==
    IF env.exc # "" THEN [exc |-> Exc(env.exc, "generated", env.lineno), v |-> PyNone]
    ELSE IF r.out_var \notin DOMAIN env.l THEN [exc |-> Exc("KeyError", "func", 0), v |-> PyNone]
    ELSE [exc |-> NoExc, v |-> env.l[r.out_var]]

\* the body of the with statement: the exception it raises, or the value it returns
WithBody(r, arg) == ScopeResult(r, Exec(r.code, r.consts, [x \in {r.in_var} |-> arg]))

\* the note __exit__ attaches
DiagnosticNote(line, src) == "Exception occurred in dynamically generated code:\n" \o line \o "\n\n" \o "Full source:\n" \o src

\* fault injection: an __exit__ that attaches no note
exit_without_note(c, r, exc) ==
    IF exc.cls = "" THEN
        IF r.name \in DOMAIN c THEN [cache |-> [n \in (DOMAIN c) \ {r.name} |-> c[n]], exc |-> NoExc]
        ELSE [cache |-> c, exc |-> Exc("KeyError", "__exit__", 0)]
    ELSE [cache |-> c, exc |-> exc]

\* _TracebackSourceContextManager.__exit__(exc_type, exc_val, exc_tb): the cache after
\* it and the exception that leaves the with statement
__exit__(c, r, exc) ==
    IF exc.cls = "" THEN
        IF r.name \in DOMAIN c THEN [cache |-> [n \in (DOMAIN c) \ {r.name} |-> c[n]], exc |-> NoExc]
        ELSE [cache |-> c, exc |-> Exc("KeyError", "__exit__", 0)]
    ELSE IF exc.frame = "generated" THEN [cache |-> c, exc |-> [exc EXCEPT !.notes = Append(@, DiagnosticNote(r.lines[exc.tb_lineno], r.src))]]
    ELSE [cache |-> c, exc |-> exc]

\* what the caller gets: the exception that left func, or the value returned
Outcome(exc, v) == [exc |-> exc, v |-> IF exc.cls = "" THEN v ELSE PyNone]

NoOutcome == [exc |-> NoExc, v |-> PyNone]

\* what func leaves behind: the cache after __exit__, the caller's outcome
FuncResult(x, v) == [cache |-> x.cache, out |-> Outcome(x.exc, v)]

\* the with statement around a body that ended as body did
WithStatement(r, c, body) == FuncResult(__exit__(__enter__(c, r), r, body.exc), body.v)

\* one whole invocation of func, run without interruption
func(r, arg, c) == WithStatement(r, c, WithBody(r, arg))

(***************************************************************************)
(* SpecBuild: a client (a compiler, a hook type) drives one builder by an  *)
(* arbitrary sequence of calls.                                            *)
(***************************************************************************)
NoCall == [r |-> 0, arg |-> PyNone]

IdleInvoke ==
    /\ routines = <<>>
    /\ pc = [t \in 1..NThreads |-> "idle"]
    /\ call = [t \in 1..NThreads |-> NoCall]
    /\ pending = [t \in 1..NThreads |-> NoOutcome]
    /\ outcome = [t \in 1..NThreads |-> NoOutcome]

IdleSerde ==
    /\ engine = "json"
    /\ hint = Cls("int")
    /\ data = PyNone
    /\ wire_in = PyNone
    /\ ser = NoRoutine("unbuilt")
    /\ ser_out = NoOutcome
    /\ deser = NoRoutine("unbuilt")
    /\ deser_out = NoOutcome
    /\ back = NoOutcome
    /\ blind = NoOutcome

NotCalled == [kind |-> "not called", items |-> <<>>, pos |-> 0, length |-> 0]

IdleGen ==
    /\ yields = <<>>
    /\ gen_obj = NotCalled
    /\ received = <<>>
    /\ stopped = FALSE

IdleBuild ==
    /\ cg = NewCodeGenerator
    /\ nops = 0
    /\ last = <<>>
    /\ trace = <<>>

InitBuild ==
    /\ pydantic = FALSE
    /\ cache = EmptyMap
    /\ IdleBuild
    /\ IdleGen
    /\ IdleInvoke
    /\ IdleSerde

CallGetVar ==
    /\ nops < MaxOps
    /\ cg' = get_var(cg).cg
    /\ last' = <<get_var(cg).r>>
    /\ nops' = nops + 1
    /\ UNCHANGED <<varsGen, trace, pydantic, cache, varsInvoke, varsSerde>>

CallGetVars ==
    /\ nops < MaxOps
    /\ \E n \in 0..MaxGetVars :
        /\ cg' = get_vars(cg, n).cg
        /\ last' = get_vars(cg, n).r
    /\ nops' = nops + 1
    /\ UNCHANGED <<varsGen, trace, pydantic, cache, varsInvoke, varsSerde>>

CallGetConst ==
    /\ nops < MaxOps
    /\ \E val \in {PyType("list")} :
        /\ cg' = get_const(cg, val).cg
        /\ last' = <<get_const(cg, val).r>>
    /\ nops' = nops + 1
    /\ UNCHANGED <<varsGen, trace, pydantic, cache, varsInvoke, varsSerde>>

CallAssignNew ==
    /\ nops < MaxOps
    /\ \E e \in {NumPair(0, Name("inp"))} :
        /\ cg' = assign_new(cg, e).cg
        /\ last' = <<assign_new(cg, e).r>>
    /\ nops' = nops + 1
    /\ UNCHANGED <<varsGen, trace, pydantic, cache, varsInvoke, varsSerde>>

\* the hints the compilers are run on: nesting, a mapping, a union
CompilerHints == {Gen("list", <<Gen("list", <<Cls("datetime")>>)>>), Gen("dict", <<Cls("int"), Cls("datetime")>>)}

\* a compiler emits the code for one hint into the builder, recursing into the
\* hint with the builder it was handed
CallCompiler ==
    /\ nops < MaxOps
    /\ cg.exc = ""
    /\ \/ \E tp \in CompilerHints : cg' = _compile_json_deserializer(tp, Name("inp"), Name("out"), cg)
       \/ cg' = SerializerCodegen_any(Gen("Union", <<Cls("int"), Gen("list", <<Cls("str")>>)>>), Name("inp"), Name("out"), cg)
    /\ last' = <<>>
    /\ nops' = nops + 1
    /\ UNCHANGED <<varsGen, trace, pydantic, cache, varsInvoke, varsSerde>>

NextBuild ==
    \/ CallGetVar
    \/ CallGetVars
    \/ CallGetConst
    \/ CallAssignNew
    \/ CallCompiler

SpecBuild == InitBuild /\ [][NextBuild]_vars

\* C4: the builder's variable counter never decreases, and every name a call
\* returns (get_var, get_vars, get_const, assign_new, directly or inside a
\* compiler's recursion) is distinct from every name returned earlier in the
\* same build.
C4_CounterMonotoneNamesFresh ==
    /\ [](NoDup(cg.names) /\ Range(last) \subseteq Range(cg.names))
    /\ [][/\ cg'.var_i >= cg.var_i
          /\ Len(cg'.names) >= Len(cg.names)
          /\ SubSeq(cg'.names, 1, Len(cg.names)) = cg.names
          /\ \A i \in (Len(cg.names) + 1)..Len(cg'.names) : cg'.names[i] \notin Range(cg.names)]_vars

\* a build in which a constant was interned, a compiler recursed and a call
\* returned several names at once
C4_Witness ==
    /\ Len(cg.names) >= 4
    /\ DOMAIN cg.consts # {}
    /\ Len(cg.statements) >= 2
    /\ Len(last) = 2

(***************************************************************************)
(* SpecEmit: a client appends statements and opens and closes blocks in    *)
(* any order.  "trace" records each call with the number of statements the *)
(* builder holds after it.                                                 *)
(***************************************************************************)
\* the names the client assigns from and to
EmitNames == {Name("inp"), Name("out")}

\* one entry of the trace: the call, its arguments, the indentation level it acts
\* at, and the number of statements after it
Emitted(op, l, r, level, g) == [op |-> op, l |-> l, r |-> r, level |-> level, at |-> Len(g.statements)]

EmitAssign ==
    /\ nops < MaxEmits
    /\ \E l \in EmitNames, r \in EmitNames :
        /\ cg' = assign(cg, l, r)
        /\ trace' = Append(trace, Emitted("assign", l.txt, r.txt, cg.current_indent, cg'))
    /\ nops' = nops + 1
    /\ UNCHANGED <<varsGen, last, pydantic, cache, varsInvoke, varsSerde>>

\* a literal line that opens a block
EmitHeader ==
    /\ nops < MaxEmits
    /\ cg' = literal(cg, For1("x", Name("inp")))
    /\ trace' = Append(trace, Emitted("literal", "", "", cg.current_indent, cg'))
    /\ nops' = nops + 1
    /\ UNCHANGED <<varsGen, last, pydantic, cache, varsInvoke, varsSerde>>

EmitComment ==
    /\ nops < MaxEmits
    /\ cg' = comment(cg, "note")
    /\ trace' = Append(trace, Emitted("comment", "", "", cg.current_indent, cg'))
    /\ nops' = nops + 1
    /\ UNCHANGED <<varsGen, last, pydantic, cache, varsInvoke, varsSerde>>

EmitIndent ==
    /\ nops < MaxEmits
    /\ cg' = indent(cg)
    /\ trace' = Append(trace, Emitted("indent", "", "", cg'.current_indent, cg'))
    /\ nops' = nops + 1
    /\ UNCHANGED <<varsGen, last, pydantic, cache, varsInvoke, varsSerde>>

EmitDedent ==
    /\ nops < MaxEmits
    /\ cg' = dedent(cg)
    /\ trace' = Append(trace, Emitted("dedent", "", "", cg.current_indent, cg'))
    /\ nops' = nops + 1
    /\ UNCHANGED <<varsGen, last, pydantic, cache, varsInvoke, varsSerde>>

NextEmit ==
    \/ EmitAssign
    \/ EmitHeader
    \/ EmitComment
    \/ EmitIndent
    \/ EmitDedent

SpecEmit == InitBuild /\ [][NextEmit]_vars

(***************************************************************************)
(* SpecCompile: the compilers of both modules emit the code for a hint     *)
(* into one builder, one after the other, as a compiler does for the       *)
(* members of a hint when it recurses.                                     *)
(***************************************************************************)
\* the hints the compilers are run on: nesting, a mapping, a fixed tuple, a union,
\* and an element type no compiler supports
BlockHints ==
    { Gen("list", <<Gen("list", <<Cls("datetime")>>)>>),
      Gen("dict", <<Cls("int"), Gen("list", <<Cls("datetime")>>)>>),
      Gen("tuple", <<Cls("int"), Gen("list", <<Cls("datetime")>>)>>),
      Gen("Union", <<Cls("int"), Gen("list", <<Cls("str")>>)>>),
      Gen("list", <<Gen("Union", <<Cls("int"), Cls("str")>>)>>),
      Gen("list", <<Cls("complex")>>) }

CompileWith(g, which, tp) ==
    IF which = "json_serializer" THEN _compile_json_serializer(tp, Name("inp"), Name("out"), g)
    ELSE IF which = "json_deserializer" THEN _compile_json_deserializer(tp, Name("inp"), Name("out"), g)
    ELSE IF which = "serializer" THEN SerializerCodegen_any(tp, Name("inp"), Name("out"), g)
    ELSE DeserializerCodegen_any(tp, Name("inp"), Name("out"), g)

RunJsonCompiler ==
    /\ nops < MaxCompiles
    /\ cg.exc = ""
    /\ \E which \in {"json_serializer", "json_deserializer"}, tp \in BlockHints :
        /\ cg' = CompileWith(cg, which, tp)
        /\ trace' = Append(trace, Emitted(which, "", "", cg.current_indent, cg'))
    /\ nops' = nops + 1
    /\ UNCHANGED <<varsGen, last, pydantic, cache, varsInvoke, varsSerde>>

RunCodegenCompiler ==
    /\ nops < MaxCompiles
    /\ cg.exc = ""
    /\ \E which \in {"serializer", "deserializer"}, tp \in BlockHints :
        /\ cg' = CompileWith(cg, which, tp)
        /\ trace' = Append(trace, Emitted(which, "", "", cg.current_indent, cg'))
    /\ nops' = nops + 1
    /\ UNCHANGED <<varsGen, last, pydantic, cache, varsInvoke, varsSerde>>

InitCompile ==
    /\ pydantic \in BOOLEAN
    /\ cache = EmptyMap
    /\ IdleBuild
    /\ IdleGen
    /\ IdleInvoke
    /\ IdleSerde

NextCompile ==
    \/ RunJsonCompiler
    \/ RunCodegenCompiler

SpecCompile == InitCompile /\ [][NextCompile]_vars

(***************************************************************************)
(* SpecInvoke: threads invoke Compiled Routines that were built once.  A   *)
(* thread is preempted between entering the context manager, running the  *)
(* body of the with statement and leaving the context manager.             *)
(***************************************************************************)
Threads == 1..NThreads

DatetimeT == Cls("datetime")

SampleDatetime == PyDatetime(<<2020, 1, 31, 23, 59, 58>>)

\* the text "xx"
TextXX == PyStr(<<120, 120>>)

\* the arguments the threads pass to the i-th routine
Arguments(i) ==
    IF i = 1 THEN {PyStr(IsoFormat(SampleDatetime[2])), TextXX}
    ELSE IF i = 2 THEN {PyList(<<SampleDatetime>>), PyList(<<PyInt(5)>>)}
    ELSE {PyList(<<PyInt(0), PyInt(5)>>), PyList(<<PyInt(2), PyInt(5)>>)}

InitInvoke ==
    /\ pydantic = FALSE
    /\ cache = EmptyMap
    /\ IdleBuild
    /\ IdleGen
    /\ IdleSerde
    /\ routines = <<compile_json_deserializer(DatetimeT), compile_json_serializer(Gen("list", <<DatetimeT>>)), CodegenRoutine(FALSE, Gen("Union", <<Cls("int"), Cls("str")>>))>>
    /\ pc = [t \in Threads |-> "idle"]
    /\ call = [t \in Threads |-> NoCall]
    /\ pending = [t \in Threads |-> NoOutcome]
    /\ outcome = [t \in Threads |-> NoOutcome]

\* func is called: the with statement enters the context manager
Enter(t) ==
    /\ pc[t] = "idle"
    /\ \E i \in DOMAIN routines : \E a \in Arguments(i) :
        /\ call' = [call EXCEPT ![t] = [r |-> i, arg |-> a]]
        /\ cache' = __enter__(cache, routines[i])
    /\ pc' = [pc EXCEPT ![t] = "entered"]
    /\ UNCHANGED <<varsGen, pydantic, routines, pending, outcome, varsBuild, varsSerde>>

\* the body of the with statement runs
Run(t) ==
    /\ pc[t] = "entered"
    /\ pending' = [pending EXCEPT ![t] = WithBody(routines[call[t].r], call[t].arg)]
    /\ pc' = [pc EXCEPT ![t] = "ran"]
    /\ UNCHANGED <<varsGen, pydantic, cache, routines, call, outcome, varsBuild, varsSerde>>

\* the with statement leaves the context manager; func returns or raises
Exit(t) ==
    /\ pc[t] = "ran"
    /\ LET x == __exit__(cache, routines[call[t].r], pending[t].exc)
       IN /\ cache' = x.cache
          /\ outcome' = [outcome EXCEPT ![t] = Outcome(x.exc, pending[t].v)]
    /\ pc' = [pc EXCEPT ![t] = "done"]
    /\ UNCHANGED <<varsGen, pydantic, routines, call, pending, varsBuild, varsSerde>>

\* the caller goes on and may invoke again
Return(t) ==
    /\ pc[t] = "done"
    /\ pc' = [pc EXCEPT ![t] = "idle"]
    /\ call' = [call EXCEPT ![t] = NoCall]
    /\ pending' = [pending EXCEPT ![t] = NoOutcome]
    /\ outcome' = [outcome EXCEPT ![t] = NoOutcome]
    /\ UNCHANGED <<varsGen, pydantic, cache, routines, varsBuild, varsSerde>>

NextInvoke ==
    \/ \E t \in Threads : Enter(t)
    \/ \E t \in Threads : Run(t)
    \/ \E t \in Threads : Exit(t)
    \/ \E t \in Threads : Return(t)

SpecInvoke == InitInvoke /\ [][NextInvoke]_vars

\* the routine thread t is invoking
RoutineOf(t) == routines[call[t].r]

(***************************************************************************)
(* SpecSerde: for one hint, one value and one wire value, the serializer   *)
(* and the deserializer are built and invoked, through json_serialization  *)
(* (engine "json") or through the classes of type_serializer (engine       *)
(* "codegen").                                                             *)
(***************************************************************************)
IntT == Cls("int")

StrT == Cls("str")

BytesT == Cls("bytes")

ListOf(tp) == Gen("list", <<tp>>)

\* the text "hi"
TextHi == PyStr(<<104, 105>>)

\* the text "a"
TextA == PyStr(<<97>>)

\* the bytes 'a', 'b'
BytesAb == PyBytes(<<97, 98>>)

\* the ISO-8601 text of SampleDatetime
SampleIso == PyStr(IsoFormat(SampleDatetime[2]))

\* hint, values to serialize, wire values to deserialize
Case(tp, values, wires) == [hint |-> tp, values |-> values, wires |-> wires]

Cases ==
    { Case(IntT, {PyInt(5)}, {PyInt(5)}),
      Case(StrT, {TextHi}, {TextHi}),
      Case(Gen("Union", <<IntT, StrT>>), {PyInt(5), TextHi}, {PyList(<<PyInt(1), TextHi>>), PyList(<<PyInt(2), PyInt(5)>>)}),
      Case(Gen("UnionType", <<IntT, StrT>>), {TextHi}, {PyList(<<PyInt(1), TextHi>>)}),
      Case(Gen("tuple", <<IntT, StrT>>), {PyTuple(<<PyInt(1), TextA>>)}, {PyList(<<PyInt(1), TextA>>)}),
      Case(Gen("tuple", <<IntT, DatetimeT>>), {PyTuple(<<PyInt(1), SampleDatetime>>)}, {PyList(<<PyInt(1), SampleIso>>)}),
      Case(Gen("tuple", <<DatetimeT, EllipsisT>>), {PyTuple(<<SampleDatetime>>)}, {PyList(<<SampleIso>>)}),
      Case(BytesT, {BytesAb}, {PyStr(B64Encode(<<97, 98>>))}),
      Case(DatetimeT, {SampleDatetime}, {SampleIso, TextXX}),
      Case(ListOf(DatetimeT), {PyList(<<SampleDatetime>>)}, {PyList(<<SampleIso>>)}),
      Case(ListOf(ListOf(IntT)), {PyList(<<PyList(<<PyInt(1)>>)>>)}, {PyList(<<PyList(<<PyInt(1)>>)>>)}),
      Case(Gen("dict", <<StrT, IntT>>), {PyDict(<<<<TextA, PyInt(1)>>>>)}, {PyDict(<<<<TextA, PyInt(1)>>>>)}),
      Case(Gen("dict", <<StrT, DatetimeT>>), {PyDict(<<<<TextA, SampleDatetime>>>>)}, {PyDict(<<<<TextA, SampleIso>>>>)}),
      Case(Gen("dict", <<IntT, IntT>>), {PyDict(<<<<PyInt(1), PyInt(2)>>>>)}, {PyList(<<PyList(<<PyInt(1), PyInt(2)>>)>>)}),
      Case(Gen("dict", <<IntT, DatetimeT>>), {PyDict(<<<<PyInt(1), SampleDatetime>>>>)}, {PyList(<<PyList(<<PyInt(1), SampleIso>>)>>)}),
      Case(Gen("UnionType", <<DatetimeT, NoneT>>), {SampleDatetime, PyNone}, {SampleIso, PyNone}),
      Case(Gen("Union", <<DatetimeT, NoneT>>), {SampleDatetime}, {SampleIso}),
      Case(Gen("Union", <<IntT, BytesT>>), {PyInt(5)}, {PyList(<<PyInt(0), PyInt(5)>>)}),
      Case(Gen("UnionType", <<IntT, BytesT>>), {PyInt(5)}, {PyList(<<PyInt(0), PyInt(5)>>)}),
      Case(Gen("Union", <<ListOf(IntT), ListOf(StrT)>>), {PyList(<<PyInt(1)>>)}, {PyList(<<PyInt(0), PyList(<<PyInt(1)>>)>>)}),
      Case(Gen("Union", <<ListOf(IntT), ListOf(DatetimeT)>>), {PyList(<<PyInt(1)>>)}, {PyList(<<PyInt(0), PyList(<<PyInt(1)>>)>>)}),
      Case(Cls("list"), {PyList(<<PyInt(1)>>)}, {PyList(<<PyInt(1)>>)}),
      Case(Cls("tuple"), {PyTuple(<<PyInt(1)>>)}, {PyList(<<PyInt(1)>>)}),
      Case(Cls("dict"), {PyDict(<<>>)}, {PyDict(<<>>)}),
      Case(Gen("list", <<IntT, IntT>>), {PyList(<<PyInt(1)>>)}, {PyList(<<PyInt(1)>>)}),
      Case(ListOf(Cls("list")), {PyList(<<PyList(<<PyInt(1)>>)>>)}, {PyList(<<PyList(<<PyInt(1)>>)>>)}),
      Case(Cls("complex"), {PyInt(5)}, {PyInt(5)}) }

\* a routine that was not built, an invocation that did not happen
Unbuilt == NoRoutine("unbuilt")

NotRun == [exc |-> Exc("NotRun", "", 0), v |-> PyNone]

InitSerde ==
    /\ pydantic \in BOOLEAN
    /\ cache = EmptyMap
    /\ IdleBuild
    /\ IdleGen
    /\ IdleInvoke
    /\ engine \in {"json", "codegen"}
    /\ \E c \in Cases :
        /\ hint = c.hint
        /\ data \in c.values
        /\ wire_in \in c.wires
    /\ ser = Unbuilt
    /\ ser_out = NotRun
    /\ deser = Unbuilt
    /\ deser_out = NotRun
    /\ back = NotRun
    /\ blind = NotRun

\* the routine an engine builds for a hint
BuildSerializer(e, tp) == IF e = "json" THEN compile_json_serializer(tp) ELSE CodegenRoutine(TRUE, tp)

BuildDeserializer(e, tp) == IF e = "json" THEN compile_json_deserializer(tp) ELSE CodegenRoutine(FALSE, tp)

\* building and invoking in one call, as serialize_json and deserialize_json do: the
\* cache after the call and what the caller gets (a failed build raises to the caller)
Convert(r, d, c) == IF r.exc # "" THEN [cache |-> c, out |-> Outcome(Exc(r.exc, "build", 0), PyNone)] ELSE func(r, d, c)

Serialize(e, d, tp, c) == Convert(BuildSerializer(e, tp), d, c)

Deserialize(e, d, tp, c) == Convert(BuildDeserializer(e, tp), d, c)

\* the argument None of serialize_json's parameter type_
NoHint == [k |-> "None", a |-> <<>>]

\* what a call that does not enter a Compiled Routine gives: the cache as it was
\* and the value, or the exception raised in the frame
Direct(r, frame, c) == [cache |-> c, out |-> Outcome(Exc(r.exc, IF r.exc = "" THEN "" ELSE frame, 0), r.v)]

serialize_json(d, tp, c) == IF tp = NoHint THEN Direct(_serialize_json_type_blind(d), "_serialize_json_type_blind", c) ELSE Serialize("json", d, tp, c)

deserialize_json(d, tp, c) == Deserialize("json", d, tp, c)

\* deserialize(serialize(data, hint), hint), given what serialize left
ThenDeserialize(e, tp, s) == IF s.out.exc.cls # "" THEN s ELSE Deserialize(e, s.out.v, tp, s.cache)

CompileSerializer ==
    /\ ser = Unbuilt
    /\ ser' = BuildSerializer(engine, hint)
    /\ UNCHANGED <<varsGen, pydantic, cache, engine, hint, data, wire_in, ser_out, deser, deser_out, back, blind, varsBuild, varsInvoke>>

InvokeSerializer ==
    /\ ser.exc = ""
    /\ ser_out = NotRun
    /\ \E x \in {func(ser, data, cache)} : cache' = x.cache /\ ser_out' = x.out
    /\ UNCHANGED <<varsGen, pydantic, engine, hint, data, wire_in, ser, deser, deser_out, back, blind, varsBuild, varsInvoke>>

CompileDeserializer ==
    /\ deser = Unbuilt
    /\ deser' = BuildDeserializer(engine, hint)
    /\ UNCHANGED <<varsGen, pydantic, cache, engine, hint, data, wire_in, ser, ser_out, deser_out, back, blind, varsBuild, varsInvoke>>

InvokeDeserializer ==
    /\ deser.exc = ""
    /\ deser_out = NotRun
    /\ \E x \in {func(deser, wire_in, cache)} : cache' = x.cache /\ deser_out' = x.out
    /\ UNCHANGED <<varsGen, pydantic, engine, hint, data, wire_in, ser, ser_out, deser, back, blind, varsBuild, varsInvoke>>

\* deserialize(serialize(data, hint), hint)
RoundTrip ==
    /\ back = NotRun
    /\ \E x \in {ThenDeserialize(engine, hint, Serialize(engine, data, hint, cache))} : cache' = x.cache /\ back' = x.out
    /\ UNCHANGED <<varsGen, pydantic, engine, hint, data, wire_in, ser, ser_out, deser, deser_out, blind, varsBuild, varsInvoke>>

\* serialize_json(data, None)
SerializeBlind ==
    /\ blind = NotRun
    /\ \E x \in {serialize_json(data, NoHint, cache)} : cache' = x.cache /\ blind' = x.out
    /\ UNCHANGED <<varsGen, pydantic, engine, hint, data, wire_in, ser, ser_out, deser, deser_out, back, varsBuild, varsInvoke>>

NextSerde ==
    \/ SerializeBlind
    \/ CompileSerializer
    \/ InvokeSerializer
    \/ CompileDeserializer
    \/ InvokeDeserializer
    \/ RoundTrip

SpecSerde == InitSerde /\ [][NextSerde]_vars

(***************************************************************************)
(* SpecMismatch: the same calls as in SpecSerde, made with values that do   *)
(* not conform to the hint: a value, or an element of a sequence, whose     *)
(* class is the class of no member of the union.                            *)
(***************************************************************************)
MismatchCases ==
    { Case(Gen("Union", <<IntT, StrT>>), {BytesAb, PyList(<<PyInt(1)>>)}, {PyList(<<PyInt(7), PyInt(5)>>)}),
      Case(Gen("UnionType", <<IntT, ListOf(StrT)>>), {TextHi, SampleDatetime}, {PyList(<<PyInt(7), PyInt(5)>>)}),
      Case(ListOf(Gen("Union", <<IntT, StrT>>)), {PyList(<<PyInt(5), BytesAb>>), PyList(<<SampleDatetime>>)}, {PyList(<<PyList(<<PyInt(7), PyInt(5)>>)>>)}),
      Case(ListOf(Gen("Union", <<IntT, ListOf(StrT)>>)), {PyList(<<TextHi, PyInt(5)>>)}, {PyList(<<PyList(<<PyInt(7), PyInt(5)>>)>>)}) }

InitMismatch ==
    /\ pydantic \in BOOLEAN
    /\ cache = EmptyMap
    /\ IdleBuild
    /\ IdleGen
    /\ IdleInvoke
    /\ engine \in {"json", "codegen"}
    /\ \E c \in MismatchCases :
        /\ hint = c.hint
        /\ data \in c.values
        /\ wire_in \in c.wires
    /\ ser = Unbuilt
    /\ ser_out = NotRun
    /\ deser = Unbuilt
    /\ deser_out = NotRun
    /\ back = NotRun
    /\ blind = NotRun

SpecMismatch == InitMismatch /\ [][NextSerde]_vars

(***************************************************************************)
(* SpecGen: a decorated generator function is called once and a consumer   *)
(* iterates what the call returned.                                        *)
(***************************************************************************)
\* what a generator body yields
YieldItems == {PyInt(1), PyInt(2), length_hint(2)}

RECURSIVE SeqsUpTo(_, _)
\* the sequences over S of length at most n
SeqsUpTo(S, n) == IF n = 0 THEN {<<>>} ELSE SeqsUpTo(S, n - 1) \cup {Append(q, x) : q \in SeqsUpTo(S, n - 1), x \in S}

InitGen ==
    /\ pydantic = FALSE
    /\ cache = EmptyMap
    /\ IdleBuild
    /\ IdleInvoke
    /\ IdleSerde
    /\ yields \in SeqsUpTo(YieldItems, MaxYields)
    /\ gen_obj = NotCalled
    /\ received = <<>>
    /\ stopped = FALSE

\* the call decorated(*args)
CallWrapper ==
    /\ gen_obj = NotCalled
    /\ gen_obj' = wrapper(yields)
    /\ UNCHANGED <<yields, received, stopped, pydantic, cache, varsBuild, varsInvoke, varsSerde>>

\* one step of "for item in it": next(it) yields an item
ConsumeItem ==
    /\ gen_obj # NotCalled
    /\ ~stopped
    /\ ~send(gen_obj).stop
    /\ gen_obj' = send(gen_obj).g
    /\ received' = Append(received, send(gen_obj).r)
    /\ UNCHANGED <<yields, stopped, pydantic, cache, varsBuild, varsInvoke, varsSerde>>

\* next(it) raises StopIteration: the loop ends
ConsumeStop ==
    /\ gen_obj # NotCalled
    /\ ~stopped
    /\ send(gen_obj).stop
    /\ stopped' = TRUE
    /\ UNCHANGED <<yields, gen_obj, received, pydantic, cache, varsBuild, varsInvoke, varsSerde>>

NextGen ==
    \/ CallWrapper
    \/ ConsumeItem
    \/ ConsumeStop

SpecGen == InitGen /\ [][NextGen]_vars

InFlight(t) == pc[t] \in {"entered", "ran"}

\* the text of the n-th statement of routine r as the builder renders it
ExpectedLine(r, n) == Spaces(r.code[n][1]) \o StatementToStr(r.code[n][2])

\* C1 (as the specification states it): once an invocation has completed, by
\* returning or by raising, and no other invocation of the same routine is in
\* progress, the registry holds no entry under the routine's name.
C1_EntryRemovedOnEveryExit ==
    \A t \in Threads :
        (pc[t] = "done" /\ \A u \in Threads \ {t} : ~(InFlight(u) /\ call[u].r = call[t].r))
            => RoutineOf(t).name \notin DOMAIN cache

\* C2 (as the specification states it): two invocations of the same routine do not
\* race on registration: while an invocation is in progress its registration is in
\* the registry, and no invocation fails in removing a registration that another
\* invocation already removed.
C2_NoRegistrationRace ==
    \A t \in Threads :
        /\ InFlight(t) => RoutineOf(t).name \in DOMAIN cache
        /\ pc[t] = "done" => outcome[t].exc.frame # "__exit__"

SchemaErrors == {"SerializationError", "DeserializationError", "TypeHintError"}

IsUnionHint(tp) == tp.k \in {"Union", "UnionType"}

IsFixedTuple(tp) == tp.k = "tuple" /\ Len(tp.a) >= 1 /\ ~(Len(tp.a) = 2 /\ tp.a[2] = EllipsisT)

\* a descriptor of one of the supported kinds with the arity of its kind, at every depth
RECURSIVE WellFormed(_)
WellFormed(tp) ==
    IF tp.a = <<>> THEN tp.k \in {"str", "int", "float", "bool", "NoneType", "bytes", "datetime"}
    ELSE IF tp.k = "list" THEN Len(tp.a) = 1 /\ WellFormed(tp.a[1])
    ELSE IF tp.k = "dict" THEN Len(tp.a) = 2 /\ WellFormed(tp.a[1]) /\ WellFormed(tp.a[2])
    ELSE IF tp.k = "tuple" THEN
        IF Len(tp.a) = 2 /\ tp.a[2] = EllipsisT THEN WellFormed(tp.a[1])
        ELSE \A i \in DOMAIN tp.a : WellFormed(tp.a[i])
    ELSE IF IsUnionHint(tp) THEN Len(tp.a) >= 2 /\ \A i \in DOMAIN tp.a : WellFormed(tp.a[i])
    ELSE FALSE

\* the first member of a union whose runtime type check the value v passes (0 if none)
MatchIndex(tp, v) ==
    IF \E i \in DOMAIN tp.a : v[1] = BaseClass(tp.a[i])
    THEN CHOOSE i \in DOMAIN tp.a : v[1] = BaseClass(tp.a[i]) /\ \A j \in 1..(i - 1) : v[1] # BaseClass(tp.a[j])
    ELSE 0

\* C5 (as the specification states it): building a serializer or a deserializer for
\* a union in which two members share the same base classification raises a schema
\* error during the build; no routine is returned.
C5_UnionCollisionRejected ==
    (IsUnionHint(hint) /\ UnionCollision(UnionBaseTypes(hint.a)))
        => /\ ser # Unbuilt => ser.exc \in SchemaErrors
           /\ deser # Unbuilt => deser.exc \in SchemaErrors

\* C6 (as the specification states it): building a routine for a descriptor with an
\* unsupported shape or a wrong arity, at any depth, raises SerializationError or
\* DeserializationError at build time; a build never ends in another error and never
\* returns a routine for such a descriptor.
C6_BadShapeRejectedAtBuild ==
    ~WellFormed(hint)
        => /\ ser # Unbuilt => ser.exc \in SchemaErrors
           /\ deser # Unbuilt => deser.exc \in SchemaErrors

\* C7 (as the specification states it): for a descriptor T of a supported kind and a
\* value v that conforms to T, deserialize(serialize(v, T), T) returns a value equal
\* to v.
C7_RoundTrip ==
    (engine = "json" /\ back # NotRun /\ WellFormed(hint) /\ ~(IsUnionHint(hint) /\ UnionCollision(UnionBaseTypes(hint.a))))
        => /\ back.exc.cls = ""
           /\ back.v = data

\* C8 (as the specification states it): serializing a value under a union produces
\* the two-element array [i, payload]: i is the zero-based index of the first member
\* whose runtime type check the value passes, payload is the value's encoding under
\* that member.
C8_UnionSerializesTagged ==
    (IsUnionHint(hint) /\ ~UnionCollision(UnionBaseTypes(hint.a)) /\ ser_out # NotRun /\ MatchIndex(hint, data) > 0)
        => /\ ser_out.exc.cls = ""
           /\ ser_out.v[1] \in {"list", "tuple"}
           /\ ser_out.v[2] = <<PyInt(MatchIndex(hint, data) - 1), Serialize(engine, data, hint.a[MatchIndex(hint, data)], EmptyMap).out.v>>

\* C9 (as the specification states it): deserializing a JSON array of n elements
\* under a fixed tuple of n members returns a tuple, not a list, whose i-th element
\* is the decoding of the i-th array element under the i-th member.
C9_FixedTupleDeserializesToTuple ==
    (IsFixedTuple(hint) /\ deser_out # NotRun /\ wire_in[1] = "list" /\ Len(wire_in[2]) = Len(hint.a))
        => /\ deser_out.exc.cls = ""
           /\ deser_out.v[1] = "tuple"
           /\ deser_out.v[2] = [i \in DOMAIN hint.a |-> Deserialize(engine, wire_in[2][i], hint.a[i], EmptyMap).out.v]

\* C10 (as the specification states it): the serializer for the bytes descriptor
\* builds, and it maps a byte string to the text of its standard base64 encoding.
C10_BytesSerializeBase64 ==
    (engine = "json" /\ hint = BytesT)
        => /\ ser # Unbuilt => ser.exc = ""
           /\ ser_out # NotRun => ser_out = Ok(PyStr(B64Encode(data[2])))

\* C11 (as the specification states it): for a mapping descriptor with text keys
\* and a supported value descriptor V the serializer builds, and it outputs a
\* mapping with exactly the input's keys, unmodified and in the input's order, in
\* which each value is the encoding of the input's value under V.
C11_TextKeyMappingSerializesValues ==
    (engine = "json" /\ hint.k = "dict" /\ Len(hint.a) = 2 /\ hint.a[1] = StrT /\ WellFormed(hint.a[2]))
        => /\ ser # Unbuilt => ser.exc = ""
           /\ ser_out # NotRun =>
                /\ ser_out.exc.cls = ""
                /\ ser_out.v = PyDict([i \in DOMAIN data[2] |-> <<data[2][i][1], Serialize("json", data[2][i][2], hint.a[2], EmptyMap).out.v>>])

\* the indent() call that opened the block the j-th call of the trace, a
\* dedent(), closes (0 when no indent() is open at that point)
RECURSIVE OpenedBy(_, _, _)
OpenedBy(tr, j, depth) ==
    IF j < 1 THEN 0
    ELSE IF tr[j].op = "dedent" THEN OpenedBy(tr, j - 1, depth + 1)
    ELSE IF tr[j].op = "indent" THEN (IF depth = 0 THEN j ELSE OpenedBy(tr, j - 1, depth - 1))
    ELSE OpenedBy(tr, j - 1, depth)

\* the rendered line of the statement a call appended
LineAt(n) == SourceLines(cg)[n]

\* C12: after any sequence of builder operations, every assign(l, r) call with
\* l = r is rendered as a comment line and every assign(l, r) call with l # r is
\* rendered as the line "l = r"; no statement of the program is rendered as an
\* executable line "x = x".
C12_SelfAssignmentElided ==
    /\ \A i \in DOMAIN trace :
        trace[i].op = "assign" =>
            LET st == cg.statements[trace[i].at]
            IN IF trace[i].l = trace[i].r
               THEN /\ LineAt(trace[i].at) = Spaces(st[1]) \o "# " \o trace[i].l \o " = " \o trace[i].r
                    /\ StatementAst(st[2]).op = "comment"
               ELSE /\ LineAt(trace[i].at) = Spaces(st[1]) \o trace[i].l \o " = " \o trace[i].r
                    /\ StatementAst(st[2]) = [op |-> "assign", target |-> Name(trace[i].l).ast, value |-> Name(trace[i].r).ast]
    /\ \A n \in DOMAIN cg.statements : \A x \in EmitNames :
        LineAt(n) # Spaces(cg.statements[n][1]) \o x.txt \o " = " \o x.txt

\* a program in which both a self-assignment and a proper assignment were
\* appended, the self-assignment inside a block
C12_Witness ==
    /\ \E i \in DOMAIN trace : trace[i].op = "assign" /\ trace[i].l = trace[i].r /\ trace[i].level = 1
    /\ \E i \in DOMAIN trace : trace[i].op = "assign" /\ trace[i].l # trace[i].r

\* C13: every block opened with indent() and closed with dedent() holds at least
\* one executable statement at the block's own indentation level, whatever was
\* appended in between; the last statement of the block is the placeholder, at
\* the level the builder had before dedent() decreased it.
C13_BlockNeverEmpty ==
    \A j \in DOMAIN trace :
        (trace[j].op = "dedent" /\ OpenedBy(trace, j - 1, 0) # 0) =>
            LET i == OpenedBy(trace, j - 1, 0)
            IN /\ trace[j].level = trace[i].level
               /\ trace[j].at \in DOMAIN cg.statements
               /\ cg.statements[trace[j].at] = <<trace[i].level, LiteralStatement(Placeholder)>>
               /\ \E n \in (trace[i].at + 1)..trace[j].at :
                    /\ cg.statements[n][1] = trace[i].level
                    /\ StatementAst(cg.statements[n][2]).op # "comment"
               /\ LineAt(trace[j].at) = Spaces(trace[i].level) \o "..."

\* a block under a header in which only an elided self-assignment was appended;
\* the program compiles
C13_Witness ==
    /\ Len(trace) = 4
    /\ trace[1].op = "literal"
    /\ trace[2].op = "indent"
    /\ trace[3].op = "assign" /\ trace[3].l = trace[3].r
    /\ trace[4].op = "dedent"
    /\ cg.current_indent = 0
    /\ SyntaxOk(cg.statements)

\* a descriptor built from primitives, bytes, timestamps, sequences and mappings
RECURSIVE PlainHint(_)
PlainHint(tp) ==
    IF tp.a = <<>> THEN tp.k \in {"str", "int", "float", "bool", "bytes", "datetime"}
    ELSE IF tp.k = "list" THEN Len(tp.a) = 1 /\ PlainHint(tp.a[1])
    ELSE IF tp.k = "dict" THEN Len(tp.a) = 2 /\ PlainHint(tp.a[1]) /\ PlainHint(tp.a[2])
    ELSE FALSE

\* C14 (as the specification states it): for every value of a descriptor built
\* from primitives, bytes, timestamps, sequences and mappings, serialize_json(data,
\* None) and serialize_json(data, hint) both return, and return the same wire value.
C14_BlindMatchesCompiled ==
    (engine = "json" /\ PlainHint(hint) /\ blind # NotRun /\ ser # Unbuilt)
        => /\ blind.exc.cls = ""
           /\ ser.exc = ""
           /\ ser_out # NotRun => (ser_out.exc.cls = "" /\ ser_out.v = blind.v)

\* C15 (as the specification states it): the serializer built for a fixed-arity
\* tuple descriptor reads each position of the input, encodes it under the
\* position's descriptor and assembles the output from the encodings in order; it
\* never fails on reading a binding that was not assigned.
C15_FixedTupleSerializerReadsInput ==
    (IsFixedTuple(hint) /\ WellFormed(hint) /\ data[1] = "tuple" /\ Len(data[2]) = Len(hint.a) /\ ser_out # NotRun)
        => /\ ser_out.exc.cls = ""
           /\ ser_out.v[2] = [i \in DOMAIN hint.a |-> Serialize(engine, data[2][i], hint.a[i], EmptyMap).out.v]

\* the deepest indentation level at which the builder holds a statement
Deepest(g) == IF g.statements = <<>> THEN 0 ELSE CHOOSE d \in {g.statements[i][1] : i \in DOMAIN g.statements} : \A i \in DOMAIN g.statements : g.statements[i][1] <= d

\* C16: during a build driven by the compilers the builder's indentation level is
\* never negative, and when the build has completed without an exception it is
\* back at 0.
C16_IndentationBalanced ==
    /\ cg.low >= 0
    /\ \A i \in DOMAIN cg.statements : cg.statements[i][1] >= 0
    /\ cg.exc = "" => cg.current_indent = 0

\* two compilers ran without an exception and opened blocks inside blocks
C16_Witness ==
    /\ Len(trace) = 2
    /\ cg.exc = ""
    /\ Deepest(cg) >= 2

\* the value v is an instance of no member of the union tp
MatchesNone(tp, v) == IsUnionHint(tp) /\ ~UnionCollision(UnionBaseTypes(tp.a)) /\ MatchIndex(tp, v) = 0

\* C17 (as the specification states it): a serializer built from a union, invoked
\* on a value that is an instance of no member of the union, fails with an error,
\* also when the union is the element type of a sequence and the value is one of
\* the sequence's elements; it returns no output.
C17_UnionMismatchFails ==
    (/\ engine = "codegen"
     /\ ser_out # NotRun
     /\ \/ MatchesNone(hint, data)
        \/ /\ hint.k = "list" /\ Len(hint.a) = 1 /\ data[1] = "list"
           /\ \E i \in DOMAIN data[2] : MatchesNone(hint.a[1], data[2][i]))
        => ser_out.exc.cls # ""

\* the items a consumer is to get: what the body yields, without a leading length hint
Delivered(items) == IF items # <<>> /\ items[1][1] = "_GeneratorLengthHint" THEN Tail(items) ELSE items

\* C18 (as the specification states it): iterating the object a decorated
\* generator function returns gives the items the generator yields, in order, with
\* only a leading length hint removed; a first item that is no length hint is
\* delivered.
C18_WrapperDeliversAllItems ==
    /\ Len(received) <= Len(Delivered(yields))
    /\ received = SubSeq(Delivered(yields), 1, Len(received))
    /\ stopped => received = Delivered(yields)

====
